---- MODULE Spec2Model ----
(***************************************************************************)
(* TR-31 key-block codec (encryption/psecTr31.go) and its CBC-MAC engine.  *)
(* Strings and byte slices are sequences of byte values 0..255; a Go       *)
(* string "B0080" is the sequence of its ASCII codes <<66,48,48,56,48>>.   *)
(***************************************************************************)
EXTENDS Integers, Sequences, FiniteSets, TLC

(***************************************************************************)
(* Bounds of the explored inputs.                                          *)
(***************************************************************************)
MaxKeyLen == 2       \* the longest key of the scenarios has 8*MaxKeyLen bytes
MaxBlocks == 2       \* caller blocks held by one header
MaxPayload == 13     \* longest short-form block payload that is enumerated

(***************************************************************************)
(* Byte and character helpers.                                             *)
(***************************************************************************)
\* Bind(e, F): F applied to the value of e; names a computed value once
Bind(e, F(_)) == F(e)

RECURSIVE BitXor(_, _, _)
BitXor(a, b, n) ==
  IF n = 0 THEN 0
  ELSE (((a % 2) + (b % 2)) % 2) + 2 * BitXor(a \div 2, b \div 2, n - 1)

\* tables are sequences indexed from 1; a constructor followed by \o <<>> is a
\* sequence value
NibXor == [a \in 1..16 |-> [b \in 1..16 |-> BitXor(a - 1, b - 1, 4)] \o <<>>] \o <<>>

ByteXor(a, b) == 16 * NibXor[(a \div 16) + 1][(b \div 16) + 1] + NibXor[(a % 16) + 1][(b % 16) + 1]

\* xor(a, b): bytewise exclusive or of two equally long slices
xor(a, b) == [i \in 1..Len(a) |-> ByteXor(a[i], b[i])] \o <<>>

RECURSIVE SumSeq(_)
SumSeq(s) == IF s = <<>> THEN 0 ELSE Head(s) + SumSeq(Tail(s))

Rep(c, n) == [i \in 1..n |-> c] \o <<>>

Take(s, n) == SubSeq(s, 1, n)
Drop(s, n) == SubSeq(s, n + 1, Len(s))
\* Go slice expression s[a:b] on a zero-based slice
Slice(s, a, b) == SubSeq(s, a + 1, b)

IsDigit(c) == c \in 48..57
IsUpper(c) == c \in 65..90
IsLower(c) == c \in 97..122

asciiAlphanumeric(s) == \A i \in 1..Len(s) : IsDigit(s[i]) \/ IsUpper(s[i]) \/ IsLower(s[i])
asciiNumeric(s) == \A i \in 1..Len(s) : IsDigit(s[i])
asciiPrintable(s) == \A i \in 1..Len(s) : s[i] \in 32..126

\* a hex digit reader that knows the uppercase letters only
HexValUpperOnly(c) ==
  IF IsDigit(c) THEN c - 48
  ELSE IF c \in 65..70 THEN c - 55
  ELSE 0 - 1

HexVal(c) ==
  IF IsDigit(c) THEN c - 48
  ELSE IF c \in 65..70 THEN c - 55
  ELSE IF c \in 97..102 THEN c - 87
  ELSE 0 - 1

isAsciiHex(s) == \A i \in 1..Len(s) : HexVal(s[i]) >= 0

RECURSIVE ParseBase(_, _)
\* value of a digit string in the given base (digits already validated)
ParseBase(s, base) ==
  IF s = <<>> THEN 0
  ELSE ParseBase(Take(s, Len(s) - 1), base) * base + HexVal(s[Len(s)])

\* hexToInt: strconv.ParseInt(s, 16, ..) with the error dropped (0 on bad input)
hexToInt(s) == IF s # <<>> /\ isAsciiHex(s) THEN ParseBase(s, 16) ELSE 0

\* stringToInt: strconv.Atoi with the error dropped
stringToInt(s) == IF s # <<>> /\ asciiNumeric(s) THEN ParseBase(s, 10) ELSE 0

HexDigit(v, upper) == IF v < 10 THEN 48 + v ELSE (IF upper THEN 55 ELSE 87) + v

RECURSIVE Digits(_, _, _)
Digits(n, base, upper) ==
  IF n < base THEN <<HexDigit(n, upper)>>
  ELSE Digits(n \div base, base, upper) \o <<HexDigit(n % base, upper)>>

\* fmt.Sprintf("%0<width>d" / "%0<width>X", n) for n >= 0: never truncates
FmtPad(n, width, base, upper) ==
  LET d == Digits(n, base, upper)
  IN IF Len(d) >= width THEN d ELSE Rep(48, width - Len(d)) \o d

\* hex.EncodeToString: two lowercase hex digits per byte
HexEncode(b) ==
  [i \in 1..(2 * Len(b)) |->
     IF i % 2 = 1 THEN HexDigit(b[(i + 1) \div 2] \div 16, FALSE)
     ELSE HexDigit(b[i \div 2] % 16, FALSE)] \o <<>>

\* hex.DecodeString: either case accepted, odd length or a bad digit is an error
HexDecode(s) ==
  IF Len(s) % 2 # 0 \/ ~isAsciiHex(s) THEN [ok |-> FALSE, val |-> <<>>]
  ELSE [ok |-> TRUE,
        val |-> [i \in 1..(Len(s) \div 2) |-> 16 * HexVal(s[2 * i - 1]) + HexVal(s[2 * i])] \o <<>>]

\* strings.ToUpper on an ASCII string
ToUpper(s) == [i \in 1..Len(s) |-> IF IsLower(s[i]) THEN s[i] - 32 ELSE s[i]] \o <<>>

\* strings.ToLower on an ASCII string
ToLower(s) == [i \in 1..Len(s) |-> IF IsUpper(s[i]) THEN s[i] + 32 ELSE s[i]] \o <<>>

Max(a, b) == IF a >= b THEN a ELSE b

(***************************************************************************)
(* Errors: the two error types of the package, plain Go errors and a       *)
(* run-time panic (slice bounds out of range).                             *)
(***************************************************************************)
NoErr == [kind |-> "nil", msg |-> ""]
HeaderError(m) == [kind |-> "HeaderError", msg |-> m]
KeyBlockError(m) == [kind |-> "KeyBlockError", msg |-> m]
PlainError(m) == [kind |-> "error", msg |-> m]
Panic(m) == [kind |-> "panic", msg |-> m]

(***************************************************************************)
(* Cipher collaborators.  The block ciphers are not part of the sources;   *)
(* they are modelled by their contract: a keyed permutation of whole       *)
(* blocks (8 bytes for TDES, 16 for AES), decryption being its inverse,    *)
(* with an error for a key length the cipher does not accept.  The         *)
(* permutation used here is a two-round byte network in which every output *)
(* byte of a round depends on every input byte.                            *)
(***************************************************************************)
DES == 0
AES == 1

Nil == <<0 - 1>>     \* a nil byte slice, as opposed to the empty slice <<>>

TDESKeyLens == {8, 16, 24}
AESKeyLens == {16, 24, 32}
CipherRounds == 2

\* the byte substitution: inversion modulo the prime 257, shifted to 0..255
SboxFn(x) == (CHOOSE y \in 1..256 : ((x + 1) * y) % 257 = 1) - 1
Sbox == [x \in 1..256 |-> SboxFn(x - 1)] \o <<>>
SboxInv == [y \in 1..256 |-> CHOOSE x \in 0..255 : SboxFn(x) = y - 1] \o <<>>

\* multiplicative inverse of n+1 modulo 256 for the two block lengths
InvBlockLenPlus1(n) == IF n = 8 THEN 57 ELSE 241

RECURSIVE WeightedSum(_, _)
WeightedSum(k, j) == IF j = 0 THEN 0 ELSE (2 * j + 1) * k[j] + WeightedSum(k, j - 1)

KeySchedule(key, n) ==
  LET ks == WeightedSum(key, Len(key)) % 256
  IN [r \in 1..CipherRounds |->
        [i \in 1..n |-> (key[((i + 7 * r) % Len(key)) + 1] + 17 * i + 101 * r + ks) % 256] \o <<>>] \o <<>>

RoundEnc(rk, x) ==
  LET s == SumSeq(x) % 256
  IN [i \in 1..Len(x) |-> Sbox[((x[i] + s + rk[i]) % 256) + 1]] \o <<>>

RoundDec(rk, y) ==
  LET n == Len(y)
      z == [i \in 1..n |-> SboxInv[y[i] + 1]] \o <<>>
      d == (SumSeq(z) + 256 * n - SumSeq(rk)) % 256
      s == (d * InvBlockLenPlus1(n)) % 256
  IN [i \in 1..n |-> (z[i] + 512 - s - rk[i]) % 256] \o <<>>

BlockEnc(sched, x) == RoundEnc(sched[2], RoundEnc(sched[1], x))
BlockDec(sched, y) == RoundDec(sched[1], RoundDec(sched[2], y))

RECURSIVE CBCEncBlocks(_, _, _, _)
CBCEncBlocks(sched, prev, data, bs) ==
  IF data = <<>> THEN <<>>
  ELSE Bind(BlockEnc(sched, xor(Take(data, bs), prev)),
            LAMBDA c : c \o CBCEncBlocks(sched, c, Drop(data, bs), bs))

RECURSIVE CBCDecBlocks(_, _, _, _)
CBCDecBlocks(sched, prev, data, bs) ==
  IF data = <<>> THEN <<>>
  ELSE LET c == Take(data, bs)
       IN xor(BlockDec(sched, c), prev) \o CBCDecBlocks(sched, c, Drop(data, bs), bs)

CipherFail == [ok |-> FALSE, val |-> <<>>]

EncryptCBC(key, iv, data, bs, keyLens) ==
  IF Len(key) \notin keyLens \/ key = Nil \/ Len(iv) # bs \/ Len(data) % bs # 0 THEN CipherFail
  ELSE [ok |-> TRUE, val |-> CBCEncBlocks(KeySchedule(key, bs), iv, data, bs)]

DecryptCBC(key, iv, data, bs, keyLens) ==
  IF Len(key) \notin keyLens \/ key = Nil \/ Len(iv) # bs \/ Len(data) % bs # 0 THEN CipherFail
  ELSE [ok |-> TRUE, val |-> CBCDecBlocks(KeySchedule(key, bs), iv, data, bs)]

EncryptTDESCBC(key, iv, data) == EncryptCBC(key, iv, data, 8, TDESKeyLens)
DecryptTDESCBC(key, iv, data) == DecryptCBC(key, iv, data, 8, TDESKeyLens)
EncryptAESCBC(key, iv, data) == EncryptCBC(key, iv, data, 16, AESKeyLens)
DecryptAESCBC(key, iv, data) == DecryptCBC(key, iv, data, 16, AESKeyLens)

EncryptECB(key, block, bs, keyLens) ==
  IF Len(key) \notin keyLens \/ key = Nil \/ Len(block) # bs THEN CipherFail
  ELSE [ok |-> TRUE, val |-> BlockEnc(KeySchedule(key, bs), block)]

EncryptTDSECB(key, block) == EncryptECB(key, block, 8, TDESKeyLens)
EncryptAESECB(key, block) == EncryptECB(key, block, 16, AESKeyLens)

(***************************************************************************)
(* ISO/IEC 9797-1 padding and the CBC-MAC engine.                          *)
(***************************************************************************)
padISO1(data, blockSize) ==
  LET bs == IF blockSize <= 0 THEN 8 ELSE blockSize
      remainder == Len(data) % bs
      d == IF remainder > 0 THEN data \o Rep(0, bs - remainder) ELSE data
  IN IF Len(d) = 0 THEN Rep(0, bs) ELSE d

padISO2(data, blockSize) ==
  LET bs == IF blockSize <= 0 THEN 8 ELSE blockSize
  IN padISO1(data \o <<128>>, bs)

\* big-endian bytes of value in a field of width bytes (higher bits dropped)
RECURSIVE BigEndian(_, _)
BigEndian(value, width) ==
  IF width = 0 THEN <<>>
  ELSE BigEndian(value \div 256, width - 1) \o <<value % 256>>

padISO3(data, blockSize) ==
  LET bs == IF blockSize <= 0 THEN 8 ELSE blockSize
      value == Len(data) * 8
      lengthBytes ==
        IF bs < 4 THEN BigEndian(value, bs)
        ELSE IF bs < 8 THEN BigEndian(value, 4) \o Rep(0, bs - 4)
        ELSE BigEndian(value, 8) \o Rep(0, bs - 8)
  IN lengthBytes \o padISO1(data, bs)

padDispatch(padding, data, blockSize) ==
  IF padding = 1 THEN padISO1(data, blockSize)
  ELSE IF padding = 2 THEN padISO2(data, blockSize)
  ELSE padISO3(data, blockSize)

MacFail(e) == [err |-> e, val |-> <<>>]

generateCBCMAC(key, data, padding, length, algorithm) ==
  IF padding = 0 THEN MacFail(PlainError("Specify valid padding method: 1, 2 or 3."))
  ELSE IF key = Nil THEN MacFail(PlainError("Invalid key."))
  ELSE IF data = Nil \/ Len(data) = 0 THEN MacFail(PlainError("Invalid data."))
  ELSE IF padding > 3 THEN MacFail(PlainError("Specify valid padding method: 1, 2 or 3."))
  ELSE IF padding < 0 THEN MacFail(Panic("call of nil padding function"))
  ELSE
    LET len == IF length = 0 THEN (IF algorithm = AES THEN 16 ELSE 8) ELSE length
        blockSize == IF algorithm = AES THEN 16 ELSE 8
    IN Bind(IF algorithm = AES
            THEN EncryptAESCBC(key, Rep(0, 16), padDispatch(padding, data, 16))
            ELSE EncryptTDESCBC(key, Rep(0, 8), padDispatch(padding, data, 8)),
            LAMBDA enc :
              IF ~enc.ok THEN MacFail(PlainError("cipher failure"))
              ELSE IF len > blockSize \/ len < 0 THEN MacFail(Panic("slice bounds out of range"))
              ELSE [err |-> NoErr, val |-> Take(Drop(enc.val, Len(enc.val) - blockSize), len)])

compareMAC(a, b) == a = b

(***************************************************************************)
(* CMAC subkeys and the per-version key derivations and MACs.              *)
(***************************************************************************)
\* clear the top bit, shift the block left by one bit as a big-endian integer
shiftLeft1(inBytes) ==
  LET n == Len(inBytes)
      c == [inBytes EXCEPT ![1] = inBytes[1] % 128]
  IN [i \in 1..n |-> ((c[i] * 2) % 256) + (IF i < n THEN c[i + 1] \div 128 ELSE 0)] \o <<>>

dShiftLeft1(inBytes) == shiftLeft1(inBytes)

R64Des == <<0, 0, 0, 0, 0, 0, 0, 27>>
R64Aes == <<0, 0, 0, 0, 0, 0, 0, 0, 0, 0, 0, 0, 0, 0, 0, 135>>

\* a subkey step that never applies the constant
SubkeyStepNoRb(b, rb) == shiftLeft1(b)

SubkeyStep(b, rb) == IF b[1] >= 128 THEN xor(shiftLeft1(b), rb) ELSE shiftLeft1(b)

deriveDesCmacSubkey(key) ==
  Bind(EncryptTDSECB(key, Rep(0, 8)), LAMBDA s :
    IF ~s.ok THEN [ok |-> FALSE, k1 |-> <<>>, k2 |-> <<>>]
    ELSE Bind(SubkeyStep(s.val, R64Des), LAMBDA k1 :
           [ok |-> TRUE, k1 |-> k1, k2 |-> SubkeyStep(k1, R64Des)]))

deriveAESCMACSubkeys(key) ==
  Bind(EncryptAESECB(key, Rep(0, 16)), LAMBDA s :
    IF ~s.ok THEN [ok |-> FALSE, k1 |-> <<>>, k2 |-> <<>>]
    ELSE Bind(SubkeyStep(s.val, R64Aes), LAMBDA k1 :
           [ok |-> TRUE, k1 |-> k1, k2 |-> SubkeyStep(k1, R64Aes)]))

DeriveFail(e) == [err |-> e, kbek |-> <<>>, kbak |-> <<>>]

RECURSIVE BDeriveLoop(_, _, _, _, _, _)
BDeriveLoop(kbpk, k1, kd, calls, kbek, kbak) ==
  IF calls = <<>> THEN [err |-> NoErr, kbek |-> kbek, kbak |-> kbak]
  ELSE
    Bind(generateCBCMAC(kbpk, xor([kd EXCEPT ![1] = Head(calls), ![2] = 0, ![3] = 0], k1), 1, 8, DES),
         LAMBDA encKey :
    Bind(generateCBCMAC(kbpk, xor([kd EXCEPT ![1] = Head(calls), ![2] = 0, ![3] = 1], k1), 1, 8, DES),
         LAMBDA authKey :
      IF encKey.err # NoErr THEN DeriveFail(encKey.err)
      ELSE IF authKey.err # NoErr THEN DeriveFail(authKey.err)
      ELSE BDeriveLoop(kbpk, k1, kd, Tail(calls), kbek \o encKey.val, kbak \o authKey.val)))

BDerive(kbpk) ==
  LET kdInput == IF Len(kbpk) = 16 THEN <<1, 0, 0, 0, 0, 0, 0, 128>>
                 ELSE <<1, 0, 0, 0, 0, 1, 0, 192>>
      callsToCmac == IF Len(kbpk) = 16 THEN <<1, 2>> ELSE <<1, 2, 3>>
  IN Bind(deriveDesCmacSubkey(kbpk), LAMBDA sub :
       IF ~sub.ok THEN DeriveFail(PlainError("cipher failure"))
       ELSE BDeriveLoop(kbpk, sub.k1, kdInput, callsToCmac, <<>>, <<>>))

bGenerateMac(kbak, header, keyData) ==
  LET macData == header \o keyData
      n == Len(header) + Len(keyData)
  IN Bind(deriveDesCmacSubkey(kbak), LAMBDA sub :
       IF ~sub.ok THEN MacFail(PlainError("cipher failure"))
       ELSE IF n < 8 THEN MacFail(KeyBlockError("macData is too short for the XOR operation"))
       ELSE generateCBCMAC(kbak, Take(macData, n - 8) \o xor(Drop(macData, n - 8), sub.k1), 1, 8, DES))

cDerive(kbpk) ==
  [err |-> NoErr,
   kbek |-> xor(kbpk, Rep(69, Len(kbpk))),
   kbak |-> xor(kbpk, Rep(77, Len(kbpk)))]

\* a MAC that covers the encrypted key only
cGenerateMACNoHeader(kbak, header, keyData) ==
  [err |-> NoErr, val |-> generateCBCMAC(kbak, keyData, 1, 4, DES).val]

\* the error of the CBC-MAC engine is dropped: a failed MAC is the nil slice
cGenerateMAC(kbak, header, keyData) ==
  [err |-> NoErr, val |-> generateCBCMAC(kbak, header \o keyData, 1, 4, DES).val]

RECURSIVE dDeriveLoop(_, _, _, _, _, _)
dDeriveLoop(kbpk, k2, kd, calls, kbek, kbak) ==
  IF calls = <<>> THEN [kbek |-> kbek, kbak |-> kbak]
  ELSE
    Bind(generateCBCMAC(kbpk, xor([kd EXCEPT ![1] = Head(calls), ![2] = 0, ![3] = 0], k2), 1, 16, AES),
         LAMBDA encData :
    Bind(generateCBCMAC(kbpk, xor([kd EXCEPT ![1] = Head(calls), ![2] = 0, ![3] = 1], k2), 1, 16, AES),
         LAMBDA encData2 :
    Bind(kbek \o encData.val, LAMBDA kbek2 :
      dDeriveLoop(kbpk, k2, kd, Tail(calls), kbek2, kbek2 \o encData2.val))))

\* a derivation that returns all the keying material it produced
dDeriveNoCrop(kbpk) ==
  IF Len(kbpk) \notin {16, 24, 32} THEN DeriveFail(PlainError("unsupported KBPK length"))
  ELSE
    LET tail8 == <<128, 0, 0, 0, 0, 0, 0, 0>>
        kdInput == IF Len(kbpk) = 16 THEN <<1, 0, 0, 0, 0, 2, 0, 128>> \o tail8
                   ELSE IF Len(kbpk) = 24 THEN <<1, 0, 0, 0, 0, 3, 0, 192>> \o tail8
                   ELSE <<1, 0, 0, 0, 0, 4, 1, 0>> \o tail8
        callsToCmac == IF Len(kbpk) = 16 THEN <<1>> ELSE <<1, 2>>
    IN Bind(dDeriveLoop(kbpk, deriveAESCMACSubkeys(kbpk).k2, kdInput, callsToCmac, <<>>, <<>>),
            LAMBDA r : [err |-> NoErr, kbek |-> r.kbek, kbak |-> r.kbak])

dDerive(kbpk) ==
  IF Len(kbpk) \notin {16, 24, 32} THEN DeriveFail(PlainError("unsupported KBPK length"))
  ELSE
    LET tail8 == <<128, 0, 0, 0, 0, 0, 0, 0>>
        kdInput == IF Len(kbpk) = 16 THEN <<1, 0, 0, 0, 0, 2, 0, 128>> \o tail8
                   ELSE IF Len(kbpk) = 24 THEN <<1, 0, 0, 0, 0, 3, 0, 192>> \o tail8
                   ELSE <<1, 0, 0, 0, 0, 4, 1, 0>> \o tail8
        callsToCmac == IF Len(kbpk) = 16 THEN <<1>> ELSE <<1, 2>>
    IN Bind(dDeriveLoop(kbpk, deriveAESCMACSubkeys(kbpk).k2, kdInput, callsToCmac, <<>>, <<>>),
            LAMBDA r :
              [err |-> NoErr,
               kbek |-> Take(r.kbek, Len(kbpk)),
               kbak |-> Drop(r.kbak, Len(r.kbak) - Len(kbpk))])

dGenerateMAC(kbak, header, keyData) ==
  LET macData == header \o keyData
      n == Len(header) + Len(keyData)
  IN Bind(deriveAESCMACSubkeys(kbak), LAMBDA sub :
       IF ~sub.ok THEN MacFail(PlainError("cipher failure"))
       ELSE IF n < 16 THEN MacFail(PlainError("macData is too short"))
       ELSE generateCBCMAC(kbak, Take(macData, n - 16) \o xor(Drop(macData, n - 16), sub.k1), 1, 16, AES))

(***************************************************************************)
(* Blocks: the optional-block mapping of a header.  A mapping is a         *)
(* function from block IDs to payloads; Go iterates it in an unspecified   *)
(* order, so serialization takes the iteration order as an argument.       *)
(***************************************************************************)
EmptyBlocks == [x \in {} |-> <<>>]
MapPut(b, k, v) == [x \in (DOMAIN b) \cup {k} |-> IF x = k THEN v ELSE b[x]]
MapDel(b, k) == [x \in (DOMAIN b) \ {k} |-> b[x]]

PB == <<80, 66>>

BlocksSet(b, key, item) ==
  IF Len(key) # 2 \/ ~asciiAlphanumeric(key)
  THEN [b |-> b, err |-> HeaderError("Block ID is invalid. Expecting 2 alphanumeric characters.")]
  ELSE IF ~asciiPrintable(item)
  THEN [b |-> b, err |-> HeaderError("Block data is invalid. Expecting ASCII printable characters.")]
  ELSE [b |-> MapPut(b, key, item), err |-> NoErr]

BlocksDelete(b, key) == MapDel(b, key)

\* the orders in which a range loop may visit the mapping
Orders(b) ==
  {o \in [1..Cardinality(DOMAIN b) -> DOMAIN b] : \A i, j \in DOMAIN o : i # j => o[i] # o[j]}

BlockTooLong(blockData) == Len(blockData) + 4 > 255 /\ Len(blockData) + 10 > 65535

\* an extended form whose length field leaves out the six framing characters
DumpEntryNoFrame(blockID, blockData) ==
  IF Len(blockData) + 4 <= 255
  THEN blockID \o HexEncode(<<Len(blockData) + 4>>) \o blockData
  ELSE blockID \o <<48, 48, 48, 50>> \o FmtPad(Len(blockData) + 4, 4, 16, TRUE) \o blockData

DumpEntry(blockID, blockData) ==
  IF Len(blockData) + 4 <= 255
  THEN blockID \o HexEncode(<<Len(blockData) + 4>>) \o blockData
  ELSE blockID \o <<48, 48, 48, 50>> \o FmtPad(Len(blockData) + 10, 4, 16, TRUE) \o blockData

RECURSIVE DumpList(_, _)
DumpList(b, order) ==
  IF order = <<>> THEN <<>> ELSE DumpEntry(Head(order), b[Head(order)]) \o DumpList(b, Tail(order))

\* a pad that forgets the four characters of the PB block's own ID and length
padNumNoFrame(blocksLen, algoBlockSize) == algoBlockSize - (blocksLen % algoBlockSize)

\* the number of '0' characters of the PB block
padNum(blocksLen, algoBlockSize) == algoBlockSize - ((blocksLen + 4) % algoBlockSize)

BlocksDump(b, order, algoBlockSize) ==
  IF \E id \in DOMAIN b : BlockTooLong(b[id])
  THEN [num |-> 0, str |-> <<>>, err |-> HeaderError("Block length is too long.")]
  ELSE
    Bind(DumpList(b, order), LAMBDA blocks :
      IF Len(blocks) > 0 /\ algoBlockSize > 0 /\ Len(blocks) % algoBlockSize # 0
      THEN LET pbBlock == PB \o FmtPad(4 + padNum(Len(blocks), algoBlockSize), 2, 16, TRUE)
                             \o Rep(48, padNum(Len(blocks), algoBlockSize))
           IN [num |-> Cardinality(DOMAIN b) + 1, str |-> blocks \o pbBlock, err |-> NoErr]
      ELSE [num |-> Cardinality(DOMAIN b), str |-> blocks, err |-> NoErr])

\* strconv.ParseInt(s, 16, 0) of validated hex digits, for the lengths that matter:
\* the exact value when it is below 2^28, "huge" up to 2^63-1 (with the distance
\* to 2^63 when that is below 4096), and a range error from 2^63 on
HugeLen == 1073741824

RECURSIVE StripZeros(_)
StripZeros(s) == IF s # <<>> /\ Head(s) = 48 THEN StripZeros(Tail(s)) ELSE s

ParseInt16(s) ==
  Bind(StripZeros(s), LAMBDA d :
    IF Len(d) <= 7 THEN [class |-> "value", val |-> ParseBase(d, 16)]
    ELSE IF Len(d) > 16 \/ (Len(d) = 16 /\ HexVal(d[1]) >= 8) THEN [class |-> "range", val |-> 0]
    ELSE IF Len(d) = 16 /\ d[1] = 55 /\ \A k \in 2..13 : HexVal(d[k]) = 15
    THEN [class |-> "huge", val |-> 4096 - ParseBase(Drop(d, 13), 16)]
    ELSE [class |-> "huge", val |-> HugeLen])

ExtFail(i, m) == [dataLen |-> 0, i |-> i, err |-> HeaderError(m)]

parseExtendedLen(blockID, blocks, i) ==
  IF Len(blocks) < i + 2
  THEN ExtFail(i, "Block length of length is malformed. Expecting 2 hexchars.")
  ELSE
    LET blockLenLenS == Slice(blocks, i, i + 2)
        i2 == i + 2
    IN IF ~isAsciiHex(blockLenLenS)
       THEN ExtFail(i, "Block length of length is malformed. Expecting 2 hexchars.")
       ELSE
         Bind(2 * ParseBase(blockLenLenS, 16), LAMBDA blockLenLen :
           IF blockLenLen = 0
           THEN ExtFail(i2, "Block length of length must not be 0.")
           ELSE IF Len(blocks) < i2 + blockLenLen
           THEN ExtFail(i2, "Block length is malformed. Expecting 2 hexchars.")
           ELSE IF ~isAsciiHex(Slice(blocks, i2, i2 + blockLenLen))
           THEN ExtFail(i2, "Block length is malformed. Expecting hexchars.")
           ELSE
             Bind(ParseInt16(Slice(blocks, i2, i2 + blockLenLen)), LAMBDA blockLen :
               IF blockLen.class = "range"
               THEN ExtFail(i2, "Failed to parse block length")
               ELSE IF blockLen.class = "huge"
               THEN [dataLen |-> HugeLen, i |-> i2 + blockLenLen, err |-> NoErr,
                     wraps |-> blockLen.val + 6 + blockLenLen <= i2 + blockLenLen]
               ELSE [dataLen |-> blockLen.val - 6 - blockLenLen, i |-> i2 + blockLenLen,
                     err |-> NoErr, wraps |-> FALSE]))

LoadFail(m, e) == [b |-> m, n |-> 0, err |-> e]

RECURSIVE LoadLoop(_, _, _, _, _)
LoadLoop(j, i, m, blocksNum, blocks) ==
  IF j >= blocksNum THEN [b |-> m, n |-> i, err |-> NoErr]
  ELSE IF Len(blocks) < 1 THEN LoadFail(m, HeaderError("Block ID is malformed."))
  ELSE IF Len(blocks) < 2 THEN LoadFail(m, HeaderError("Block ID is malformed."))
  ELSE IF Len(blocks) < i + 2
  THEN IF i + 1 > Len(blocks) THEN LoadFail(m, Panic("slice bounds out of range"))
       ELSE LoadFail(m, HeaderError("Block ID is malformed."))
  ELSE
    LET blockID == Slice(blocks, i, i + 2)
        i2 == i + 2
    IN IF ~asciiAlphanumeric(blockID)
       THEN LoadFail(m, HeaderError("Block ID is invalid. Expecting 2 alphanumeric characters."))
       ELSE IF Len(blocks) < i2 + 4
       THEN LoadFail(m, HeaderError("Block length is malformed. Expecting 2 hexchars."))
       ELSE
         Bind(hexToInt(Slice(blocks, i2, i2 + 2)), LAMBDA short :
         Bind(IF short = 0 THEN parseExtendedLen(blockID, blocks, i2 + 2)
              ELSE [dataLen |-> short - 4, i |-> i2 + 2, err |-> NoErr, wraps |-> FALSE],
              LAMBDA ext :
           IF ext.err # NoErr THEN LoadFail(m, ext.err)
           ELSE IF ext.dataLen < 0
           THEN LoadFail(m, HeaderError("Block length does not include block ID and length."))
           ELSE IF ext.wraps THEN LoadFail(m, Panic("slice bounds out of range"))
           ELSE IF Len(blocks) < ext.i + ext.dataLen
           THEN LoadFail(m, HeaderError("Block data is malformed."))
           ELSE
             LoadLoop(j + 1, ext.i + ext.dataLen,
                      IF blockID # PB
                      THEN MapPut(m, blockID, Slice(blocks, ext.i, ext.i + ext.dataLen))
                      ELSE m,
                      blocksNum, blocks)))

\* Blocks.Load: the mapping is replaced before the first block is read
BlocksLoad(blocksNum, blocks) == LoadLoop(0, 0, EmptyBlocks, blocksNum, blocks)

(***************************************************************************)
(* Header: the fixed fields and their codec.                               *)
(***************************************************************************)
VerA == <<65>>
VerB == <<66>>
VerC == <<67>>
VerD == <<68>>
Versions == {VerA, VerB, VerC, VerD}

\* _versionIDAlgoBlockSize and _versionIDKeyBlockMacLen; a missing key reads as 0
versionIDAlgoBlockSize(v) == IF v \in {VerA, VerB, VerC} THEN 8 ELSE IF v = VerD THEN 16 ELSE 0
versionIDKeyBlockMacLen(v) ==
  IF v \in {VerA, VerC} THEN 4 ELSE IF v = VerB THEN 8 ELSE IF v = VerD THEN 16 ELSE 0

\* _algoIDMaxKeyLen: "T" and "D" map to 24, "A" to 32; 0 - 1 stands for a missing key
algoIDMaxKeyLen(a) == IF a \in {<<84>>, <<68>>} THEN 24 ELSE IF a = <<65>> THEN 32 ELSE 0 - 1

DefaultHeader ==
  [VersionID |-> VerB, KeyUsage |-> <<48, 48>>, Algorithm |-> <<48>>, ModeOfUse |-> <<48>>,
   VersionNum |-> <<48, 48>>, Exportability |-> <<78>>, Reserved |-> <<48, 48>>]

SetVersionID(h, versionID) ==
  IF versionID \notin Versions
  THEN [h |-> h, err |-> HeaderError("Version ID is not supported.")]
  ELSE [h |-> [h EXCEPT !.VersionID = versionID], err |-> NoErr]

SetKeyUsage(h, keyUsage) ==
  IF Len(keyUsage) # 2 \/ ~asciiAlphanumeric(keyUsage)
  THEN [h |-> h, err |-> HeaderError("Key usage is invalid.")]
  ELSE [h |-> [h EXCEPT !.KeyUsage = keyUsage], err |-> NoErr]

SetAlgorithm(h, algorithm) ==
  IF Len(algorithm) # 1 \/ ~asciiAlphanumeric(algorithm)
  THEN [h |-> h, err |-> HeaderError("Algorithm is invalid.")]
  ELSE [h |-> [h EXCEPT !.Algorithm = algorithm], err |-> NoErr]

SetModeOfUse(h, modeOfUse) ==
  IF Len(modeOfUse) # 1 \/ ~asciiAlphanumeric(modeOfUse)
  THEN [h |-> h, err |-> HeaderError("Mode of use is invalid.")]
  ELSE [h |-> [h EXCEPT !.ModeOfUse = modeOfUse], err |-> NoErr]

SetVersionNum(h, versionNum) ==
  IF Len(versionNum) # 2 \/ ~asciiAlphanumeric(versionNum)
  THEN [h |-> h, err |-> HeaderError("Version number is invalid.")]
  ELSE [h |-> [h EXCEPT !.VersionNum = versionNum], err |-> NoErr]

SetExportability(h, exportability) ==
  IF Len(exportability) # 1 \/ ~asciiAlphanumeric(exportability)
  THEN [h |-> h, err |-> HeaderError("Exportability is invalid.")]
  ELSE [h |-> [h EXCEPT !.Exportability = exportability], err |-> NoErr]

\* the seven fixed fields, for comparing headers
FixedFields(h) ==
  <<h.VersionID, h.KeyUsage, h.Algorithm, h.ModeOfUse, h.VersionNum, h.Exportability, h.Reserved>>

HeaderPrefix(h, total, blocksNum) ==
  h.VersionID \o FmtPad(total, 4, 10, FALSE) \o h.KeyUsage \o h.Algorithm \o h.ModeOfUse
  \o h.VersionNum \o h.Exportability \o FmtPad(blocksNum, 2, 10, FALSE) \o h.Reserved

\* Header.String: the error of Blocks.Dump is dropped
HeaderString(h, b, order) ==
  Bind(BlocksDump(b, order, versionIDAlgoBlockSize(h.VersionID)), LAMBDA d :
    HeaderPrefix(h, 16 + Len(d.str), d.num) \o d.str)

HeaderDump(h, b, order, keyLen) ==
  LET algoBlockSize == versionIDAlgoBlockSize(h.VersionID)
  IN IF algoBlockSize = 0 THEN [str |-> <<>>, err |-> Panic("integer divide by zero")]
     ELSE
       Bind(BlocksDump(b, order, algoBlockSize), LAMBDA d :
       Bind(16 + 4 + (keyLen * 2) + ((algoBlockSize - ((2 + keyLen) % algoBlockSize)) * 2)
            + (versionIDKeyBlockMacLen(h.VersionID) * 2) + Len(d.str), LAMBDA kbLen :
         IF kbLen > 9999
         THEN [str |-> <<>>, err |-> HeaderError("Total key block length exceeds limit of 9999.")]
         ELSE [str |-> HeaderPrefix(h, kbLen, d.num) \o d.str, err |-> NoErr]))

\* Header.Load: the setters run in order and each keeps what the earlier ones stored
HeaderLoad(h, b, header) ==
  LET fail(r) == [h |-> r.h, b |-> b, n |-> 0, err |-> r.err]
  IN
  IF Len(header) < 16 THEN [h |-> h, b |-> b, n |-> 0, err |-> Panic("slice bounds out of range")]
  ELSE IF ~asciiAlphanumeric(Take(header, 16))
  THEN [h |-> h, b |-> b, n |-> 0, err |-> HeaderError("Header must be ASCII alphanumeric.")]
  ELSE
    Bind(SetVersionID(h, Slice(header, 0, 1)), LAMBDA r1 :
    IF r1.err # NoErr THEN fail(r1) ELSE
    Bind(SetKeyUsage(r1.h, Slice(header, 5, 7)), LAMBDA r2 :
    IF r2.err # NoErr THEN fail(r2) ELSE
    Bind(SetAlgorithm(r2.h, Slice(header, 7, 8)), LAMBDA r3 :
    IF r3.err # NoErr THEN fail(r3) ELSE
    Bind(SetModeOfUse(r3.h, Slice(header, 8, 9)), LAMBDA r4 :
    IF r4.err # NoErr THEN fail(r4) ELSE
    Bind(SetVersionNum(r4.h, Slice(header, 9, 11)), LAMBDA r5 :
    IF r5.err # NoErr THEN fail(r5) ELSE
    Bind(SetExportability(r5.h, Slice(header, 11, 12)), LAMBDA r6 :
    IF r6.err # NoErr THEN fail(r6) ELSE
    Bind([r6.h EXCEPT !.Reserved = Slice(header, 14, 16)], LAMBDA h7 :
      IF ~asciiNumeric(Slice(header, 12, 14))
      THEN [h |-> h7, b |-> b, n |-> 0,
            err |-> HeaderError("Number of blocks is invalid. Expecting 2 digits.")]
      ELSE
        Bind(BlocksLoad((header[13] - 48) * 10 + (header[14] - 48), Drop(header, 16)), LAMBDA l :
          [h |-> h7, b |-> l.b, n |-> 16 + l.n, err |-> l.err]))))))))

(***************************************************************************)
(* Version profiles: wrap and unwrap of versions B, A/C and D.  Besides    *)
(* the returned value and error a result records what the call did:        *)
(* crypto (a derivation, cipher or MAC was invoked), decrypted, macChecked *)
(* with the two MACs compared, and the length of the clear key data.       *)
(***************************************************************************)
\* rand.Read(pad): the pad bytes are any bytes; seed selects one filling
RandPad(seed, n) == [i \in 1..n |-> (seed + 29 * i) % 256] \o <<>>

\* a clear key data block whose length field counts bytes instead of bits
ClearKeyDataBytes(key, pad) == BigEndian(Len(key) % 65536, 2) \o key \o pad

\* 2-byte key length measured in bits + key + pad
ClearKeyData(key, pad) == BigEndian((Len(key) * 8) % 65536, 2) \o key \o pad

WrapFail(e, c) == [out |-> <<>>, err |-> e, crypto |-> c, clearLen |-> 0, mac |-> <<>>]

BWrap(kbpk, header, key, extraPad, seed) ==
  IF Len(kbpk) # 16 /\ Len(kbpk) # 24
  THEN WrapFail(KeyBlockError("KBPK length must be Double or Triple DES"), FALSE)
  ELSE
    Bind(BDerive(kbpk), LAMBDA d :
    Bind(ClearKeyData(key, RandPad(seed, (8 - ((2 + Len(key) + extraPad) % 8)) + extraPad)),
         LAMBDA clearKeyData :
    Bind(bGenerateMac(d.kbak, header, clearKeyData), LAMBDA mac :
    Bind(EncryptTDESCBC(d.kbek, mac.val, clearKeyData), LAMBDA encKey :
      IF ~encKey.ok THEN WrapFail(PlainError("cipher failure"), TRUE)
      ELSE [out |-> header \o HexEncode(encKey.val) \o HexEncode(mac.val), err |-> NoErr,
            crypto |-> TRUE, clearLen |-> Len(clearKeyData), mac |-> mac.val]))))

\* capSlack: whether the byte slice made from a header shorter than 8 characters
\* has spare (zeroed) capacity, which decides if []byte(header)[:8] panics
CWrap(kbpk, header, key, extraPad, seed, capSlack) ==
  IF Len(kbpk) # 8 /\ Len(kbpk) # 16 /\ Len(kbpk) # 24
  THEN WrapFail(KeyBlockError("KBPK length must be Single, Double or Triple DES"), FALSE)
  ELSE IF Len(header) < 8 /\ ~capSlack THEN WrapFail(Panic("slice bounds out of range"), TRUE)
  ELSE
    Bind(cDerive(kbpk), LAMBDA d :
    Bind(ClearKeyData(key, RandPad(seed, (8 - ((2 + Len(key) + extraPad) % 8)) + extraPad)),
         LAMBDA clearKeyData :
    Bind(EncryptTDESCBC(d.kbek,
                        IF Len(header) >= 8 THEN Take(header, 8)
                        ELSE header \o Rep(0, 8 - Len(header)),
                        clearKeyData), LAMBDA encKey :
      IF ~encKey.ok THEN WrapFail(PlainError("cipher failure"), TRUE)
      ELSE
        Bind(cGenerateMAC(d.kbak, header, encKey.val), LAMBDA mac :
          [out |-> header \o ToUpper(HexEncode(encKey.val)) \o ToUpper(HexEncode(mac.val)),
           err |-> NoErr, crypto |-> TRUE, clearLen |-> Len(clearKeyData), mac |-> mac.val]))))

DWrap(kbpk, header, key, extraPad, seed) ==
  IF Len(kbpk) # 16 /\ Len(kbpk) # 24 /\ Len(kbpk) # 32
  THEN WrapFail(KeyBlockError("KBPK length must be AES-128, AES-192 or AES-256"), FALSE)
  ELSE
    Bind(dDerive(kbpk), LAMBDA d :
    IF d.err # NoErr THEN WrapFail(d.err, TRUE) ELSE
    Bind(ClearKeyData(key, RandPad(seed, (16 - ((2 + Len(key) + extraPad) % 16)) + extraPad)),
         LAMBDA clearKeyData :
    Bind(dGenerateMAC(d.kbak, header, clearKeyData), LAMBDA mac :
    IF mac.err # NoErr THEN WrapFail(mac.err, TRUE) ELSE
    Bind(EncryptAESCBC(d.kbek, mac.val, clearKeyData), LAMBDA encKey :
      IF ~encKey.ok THEN WrapFail(PlainError("cipher failure"), TRUE)
      ELSE [out |-> header \o HexEncode(encKey.val) \o HexEncode(mac.val), err |-> NoErr,
            crypto |-> TRUE, clearLen |-> Len(clearKeyData), mac |-> mac.val]))))

UnwrapFail(e, c, dec) ==
  [key |-> <<>>, err |-> e, crypto |-> c, decrypted |-> dec, macChecked |-> FALSE,
   macCalc |-> <<>>, macRecv |-> <<>>, macErr |-> NoErr]

\* an extraction that reads the length field as a number of bytes
ExtractKeyBytes(clearKeyData, mac, receivedMac) ==
  LET keyLength == clearKeyData[1] * 256 + clearKeyData[2]
      done(k, e) == [key |-> k, err |-> e, crypto |-> TRUE, decrypted |-> TRUE,
                     macChecked |-> TRUE, macCalc |-> mac, macRecv |-> receivedMac, macErr |-> NoErr]
  IN IF Len(clearKeyData) < keyLength + 2 THEN done(<<>>, KeyBlockError("Decrypted key is malformed."))
     ELSE done(Slice(clearKeyData, 2, keyLength + 2), NoErr)

\* extract key from key data: 2-byte key length + key + pad
ExtractKey(clearKeyData, mac, receivedMac) ==
  LET keyLength == clearKeyData[1] * 256 + clearKeyData[2]
      fail(m) == [key |-> <<>>, err |-> KeyBlockError(m), crypto |-> TRUE, decrypted |-> TRUE,
                  macChecked |-> TRUE, macCalc |-> mac, macRecv |-> receivedMac, macErr |-> NoErr]
  IN IF keyLength % 8 # 0 THEN fail("Decrypted key is invalid.")
     ELSE IF Len(clearKeyData) < (keyLength \div 8) + 2 THEN fail("Decrypted key is malformed.")
     ELSE [key |-> Slice(clearKeyData, 2, (keyLength \div 8) + 2), err |-> NoErr, crypto |-> TRUE,
           decrypted |-> TRUE, macChecked |-> TRUE, macCalc |-> mac, macRecv |-> receivedMac,
           macErr |-> NoErr]

MacMismatch(mac, receivedMac, dec, macErr) ==
  [key |-> <<>>, err |-> KeyBlockError("Key block MAC doesn't match generated MAC."),
   crypto |-> TRUE, decrypted |-> dec, macChecked |-> TRUE,
   macCalc |-> mac, macRecv |-> receivedMac, macErr |-> macErr]

\* a comparison that looks at the lengths only
BytesEqualLen(a, b) == Len(a) = Len(b)

BytesEqual(a, b) == a = b

BUnwrap(kbpk, header, keyData, receivedMac) ==
  IF Len(kbpk) # 16 /\ Len(kbpk) # 24
  THEN UnwrapFail(KeyBlockError("KBPK length must be Double or Triple DES"), FALSE, FALSE)
  ELSE IF Len(keyData) < 8 \/ Len(keyData) % 8 # 0
  THEN UnwrapFail(KeyBlockError("Encrypted key is malformed."), FALSE, FALSE)
  ELSE
    Bind(BDerive(kbpk), LAMBDA d :
    IF d.err # NoErr THEN UnwrapFail(d.err, TRUE, FALSE) ELSE
    Bind(DecryptTDESCBC(d.kbek, receivedMac, keyData), LAMBDA clearKeyData :
    IF ~clearKeyData.ok THEN UnwrapFail(PlainError("cipher failure"), TRUE, FALSE) ELSE
    Bind(bGenerateMac(d.kbak, header, clearKeyData.val), LAMBDA mac :
      IF mac.err # NoErr THEN [UnwrapFail(mac.err, TRUE, TRUE) EXCEPT !.macErr = mac.err]
      ELSE IF ~BytesEqual(mac.val, receivedMac) THEN MacMismatch(mac.val, receivedMac, TRUE, NoErr)
      ELSE ExtractKey(clearKeyData.val, mac.val, receivedMac))))

\* an unwrap that decrypts first and validates the MAC afterwards
CUnwrapDecryptFirst(kbpk, header, keyData, receivedMAC) ==
  IF Len(kbpk) # 8 /\ Len(kbpk) # 16 /\ Len(kbpk) # 24
  THEN UnwrapFail(KeyBlockError("KBPK length must be Single, Double or Triple DES"), FALSE, FALSE)
  ELSE IF Len(keyData) < 8 \/ Len(keyData) % 8 # 0
  THEN UnwrapFail(KeyBlockError("Encrypted key is malformed."), FALSE, FALSE)
  ELSE IF Len(header) < 8 THEN UnwrapFail(Panic("slice bounds out of range"), TRUE, FALSE)
  ELSE
    Bind(cDerive(kbpk), LAMBDA d :
    Bind(DecryptTDESCBC(d.kbek, Take(header, 8), keyData), LAMBDA clearKeyData :
    Bind(cGenerateMAC(d.kbak, header, keyData), LAMBDA mac :
      IF ~clearKeyData.ok THEN UnwrapFail(PlainError("cipher failure"), TRUE, FALSE)
      ELSE IF ~compareMAC(mac.val, receivedMAC) THEN MacMismatch(mac.val, receivedMAC, TRUE, NoErr)
      ELSE ExtractKey(clearKeyData.val, mac.val, receivedMAC))))

CUnwrap(kbpk, header, keyData, receivedMAC) ==
  IF Len(kbpk) # 8 /\ Len(kbpk) # 16 /\ Len(kbpk) # 24
  THEN UnwrapFail(KeyBlockError("KBPK length must be Single, Double or Triple DES"), FALSE, FALSE)
  ELSE IF Len(keyData) < 8 \/ Len(keyData) % 8 # 0
  THEN UnwrapFail(KeyBlockError("Encrypted key is malformed."), FALSE, FALSE)
  ELSE
    Bind(cDerive(kbpk), LAMBDA d :
    Bind(cGenerateMAC(d.kbak, header, keyData), LAMBDA mac :
      IF ~compareMAC(mac.val, receivedMAC) THEN MacMismatch(mac.val, receivedMAC, FALSE, NoErr)
      ELSE IF Len(header) < 8 THEN UnwrapFail(Panic("slice bounds out of range"), TRUE, FALSE)
      ELSE
        Bind(DecryptTDESCBC(d.kbek, Take(header, 8), keyData), LAMBDA clearKeyData :
          IF ~clearKeyData.ok THEN UnwrapFail(PlainError("cipher failure"), TRUE, FALSE)
          ELSE ExtractKey(clearKeyData.val, mac.val, receivedMAC))))

DUnwrap(kbpk, header, keyData, receivedMAC) ==
  IF Len(kbpk) # 16 /\ Len(kbpk) # 24 /\ Len(kbpk) # 32
  THEN UnwrapFail(KeyBlockError("KBPK length must be AES-128, AES-192 or AES-256"), FALSE, FALSE)
  ELSE IF Len(keyData) < 16 \/ Len(keyData) % 16 # 0
  THEN UnwrapFail(KeyBlockError("Encrypted key is malformed."), FALSE, FALSE)
  ELSE
    Bind(dDerive(kbpk), LAMBDA d :
    Bind(DecryptAESCBC(d.kbek, receivedMAC, keyData), LAMBDA clearKeyData :
    IF ~clearKeyData.ok THEN UnwrapFail(PlainError("cipher failure"), TRUE, FALSE) ELSE
    Bind(dGenerateMAC(d.kbak, header, clearKeyData.val), LAMBDA mac :
      IF ~BytesEqual(mac.val, receivedMAC)
      THEN MacMismatch(mac.val, receivedMAC, TRUE, mac.err)
      ELSE ExtractKey(clearKeyData.val, mac.val, receivedMAC))))

(***************************************************************************)
(* KeyBlock facade.                                                        *)
(***************************************************************************)
\* NoLen stands for a nil maskedKeyLen pointer
NoLen == 0 - 1

\* a masked length that ignores the Algorithm's default
WrappedMaskedLenNoDefault(h, key, maskedKeyLen) ==
  IF maskedKeyLen = NoLen THEN Len(key) ELSE Max(maskedKeyLen, Len(key))

WrappedMaskedLen(h, key, maskedKeyLen) ==
  IF maskedKeyLen = NoLen
  THEN IF algoIDMaxKeyLen(h.Algorithm) >= 0 THEN Max(algoIDMaxKeyLen(h.Algorithm), Len(key))
       ELSE Len(key)
  ELSE Max(maskedKeyLen, Len(key))

\* Wrap: the error of Header.Dump is dropped and the version function is called
\* with whatever header string Dump returned
Wrap(kbpk, h, b, order, key, maskedKeyLen, seed, capSlack) ==
  IF h.VersionID \notin Versions
  THEN WrapFail(PlainError("Key block version ID is not supported"), FALSE)
  ELSE
    Bind(WrappedMaskedLen(h, key, maskedKeyLen), LAMBDA wrappedMaskedLen :
    Bind(HeaderDump(h, b, order, wrappedMaskedLen).str, LAMBDA headerDump :
      IF h.VersionID = VerB THEN BWrap(kbpk, headerDump, key, wrappedMaskedLen - Len(key), seed)
      ELSE IF h.VersionID = VerD
      THEN DWrap(kbpk, headerDump, key, wrappedMaskedLen - Len(key), seed)
      ELSE CWrap(kbpk, headerDump, key, wrappedMaskedLen - Len(key), seed, capSlack)))

UnwrapDispatch(version, kbpk, header, keyData, receivedMac) ==
  IF version = VerB THEN BUnwrap(kbpk, header, keyData, receivedMac)
  ELSE IF version = VerD THEN DUnwrap(kbpk, header, keyData, receivedMac)
  ELSE CUnwrap(kbpk, header, keyData, receivedMac)

\* Unwrap: returns the result of the version function together with the header
\* and block mapping the KeyBlock holds afterwards and the error Header.Load gave
Unwrap(kbpk, h, b, keyBlock) ==
  LET early(e, hh, bb, le) == UnwrapFail(e, FALSE, FALSE) @@ [h |-> hh, b |-> bb, loadErr |-> le]
      n == Len(keyBlock)
  IN
  IF Len(keyBlock) < 5
  THEN early(KeyBlockError("Key block header length is malformed. Expecting 4 digits."), h, b, NoErr)
  ELSE
    Bind(HeaderLoad(h, b, keyBlock), LAMBDA l :
      LET headerLen == l.n
          blockSize == versionIDAlgoBlockSize(l.h.VersionID)
          algoMacLen == versionIDKeyBlockMacLen(l.h.VersionID)
          fail(m) == early(KeyBlockError(m), l.h, l.b, l.err)
      IN IF l.err.kind = "panic" THEN early(l.err, l.h, l.b, l.err)
         ELSE IF ~asciiNumeric(Slice(keyBlock, 1, 5))
         THEN fail("Key block header length is malformed. Expecting 4 digits.")
         ELSE IF stringToInt(Slice(keyBlock, 1, 5)) # n
         THEN fail("Key block header length doesn't match input data length.")
         ELSE IF blockSize = 0 THEN early(Panic("integer divide by zero"), l.h, l.b, l.err)
         ELSE IF n % blockSize # 0
         THEN fail("Key block length must be multiple of the block size.")
         ELSE IF ~(headerLen < n) THEN fail("headerLen is out of bounds")
         ELSE IF ~(n - headerLen > algoMacLen * 2)
         THEN fail("Key block MAC must be valid hexchars.")
         ELSE
           Bind(HexDecode(Drop(keyBlock, n - algoMacLen * 2)), LAMBDA receivedMac :
           IF ~receivedMac.ok THEN fail("Key block MAC must be valid hexchars.")
           ELSE IF Len(receivedMac.val) # algoMacLen THEN fail("Key block MAC is malformed.")
           ELSE
           Bind(HexDecode(Slice(keyBlock, headerLen, n - algoMacLen * 2)), LAMBDA keyData :
             IF ~keyData.ok THEN fail("Encrypted key must be valid hexchars.")
             ELSE IF l.h.VersionID \notin Versions
             THEN fail("Key block version ID is not supported.")
             ELSE UnwrapDispatch(l.h.VersionID, kbpk, Take(keyBlock, headerLen),
                                 keyData.val, receivedMac.val)
                  @@ [h |-> l.h, b |-> l.b, loadErr |-> l.err])))

\* NewKeyBlock with a string header: a header shorter than 5 characters is ignored
NewKeyBlockFromString(kbpk, iheader) ==
  IF Len(kbpk) = 0
  THEN [ok |-> FALSE, h |-> DefaultHeader, b |-> EmptyBlocks,
        err |-> PlainError("Key Block Protection Key (KBPK) cannot be empty")]
  ELSE IF Len(iheader) < 5
  THEN [ok |-> TRUE, h |-> DefaultHeader, b |-> EmptyBlocks, err |-> NoErr]
  ELSE
    Bind(HeaderLoad(DefaultHeader, EmptyBlocks, iheader), LAMBDA l :
      IF l.err.kind = "panic" THEN [ok |-> FALSE, h |-> l.h, b |-> l.b, err |-> l.err]
      ELSE IF l.err # NoErr
      THEN [ok |-> FALSE, h |-> l.h, b |-> l.b, err |-> PlainError("failed to load header")]
      ELSE [ok |-> TRUE, h |-> l.h, b |-> l.b, err |-> NoErr])

\* NewKeyBlock with a *Header: the header is used as it is
NewKeyBlock(kbpk, header, b) ==
  IF Len(kbpk) = 0
  THEN [ok |-> FALSE, h |-> header, b |-> b,
        err |-> PlainError("Key Block Protection Key (KBPK) cannot be empty")]
  ELSE [ok |-> TRUE, h |-> header, b |-> b, err |-> NoErr]

(***************************************************************************)
(* State: one KeyBlock (its KBPK, its header with the block mapping), the  *)
(* text block the caller currently holds, the outcome of the last call and *)
(* the inputs of the last Wrap.  The caller takes note of an outcome       *)
(* (AckAct) before it starts the next independent call.                    *)
(***************************************************************************)
VARIABLES kbpk, header, blocks, text, res, wrapped, iter, vault

vars == <<kbpk, header, blocks, text, res, wrapped, iter, vault>>

KbpkLens == {8, 16, 24, 32}
KbpkOf(n) == [i \in 1..n |-> (17 * i + 1) % 256] \o <<>>

KeyLens == {0, 5, 8 * MaxKeyLen}
KeyOf(n) == [i \in 1..n |-> (37 * i + n) % 256] \o <<>>

MaskedLens == {NoLen, 12}
PadSeeds == {7}

\* "T", "D", "A" have a default masked length, "0" has none
AlgT == <<84>>
AlgD == <<68>>
AlgA == <<65>>
Alg0 == <<48>>
Algorithms(v) == IF v = VerD THEN {AlgA, Alg0} ELSE IF v = VerC THEN {AlgD, Alg0} ELSE {AlgT, Alg0}

\* the KBPK of a peer that sends key blocks to this KeyBlock's owner
PeerKbpk == [i \in 1..16 |-> (29 * i + 3) % 256] \o <<>>

KS == <<75, 83>>
TC == <<84, 67>>
KP == <<75, 80>>
BlockIDList == <<KS, TC, KP, <<75, 67>>, <<75, 86>>>>
BlockIDs == {BlockIDList[i] : i \in 1..MaxBlocks}

\* payloads: short ones and one that pushes a key block over the 9999 limit
BigPayload == Rep(120, 9950)
Payloads(id) == IF id = TC THEN {<<49, 50, 51, 52, 53, 54, 55, 56, 57, 48>>, BigPayload}
                ELSE IF id = KS THEN {<<97, 98, 99>>}
                ELSE {<<>>}

Idle == [op |-> "Idle", err |-> NoErr]

\* a Vault server that stores no secret: a mapping from paths to secrets
NoVault == << >>

\* no Blocks.Iter goroutine has been started
NoIter == [pc |-> "none", seen |-> {}, key |-> <<>>, dirty |-> FALSE, stopped |-> FALSE]

NoWrap == [valid |-> FALSE, key |-> <<>>, masked |-> NoLen, out |-> <<>>,
           h |-> DefaultHeader, b |-> EmptyBlocks, order |-> <<>>, seed |-> 0,
           capSlack |-> FALSE, dumpErr |-> NoErr]

KbpkAllowed(v, k) ==
  \/ v \in {VerA, VerC} /\ Len(k) \in {8, 16, 24}
  \/ v = VerB /\ Len(k) \in {16, 24}
  \/ v = VerD /\ Len(k) \in {16, 24, 32}

NewHeaderOf(v, a) ==
  [DefaultHeader EXCEPT !.VersionID = v, !.KeyUsage = <<80, 48>>, !.Algorithm = a,
                        !.ModeOfUse = <<69>>, !.Exportability = <<69>>]

\* NewKeyBlock(kbpk, header) with a header built by NewHeader
Init ==
  \E v \in Versions, n \in KbpkLens :
    \E a \in Algorithms(v) :
      \E kb \in {NewKeyBlock(KbpkOf(n), NewHeaderOf(v, a), EmptyBlocks)} :
        /\ kb.ok
        /\ kbpk = KbpkOf(n)
        /\ header = kb.h
        /\ blocks = kb.b
        /\ text = <<>>
        /\ res = Idle
        /\ wrapped = NoWrap
        /\ iter = NoIter
        /\ vault = NoVault

\* header.Blocks.Set(id, item)
BlocksSetAct ==
  /\ res.op = "Idle"
  /\ \E id \in BlockIDs : \E item \in Payloads(id) :
       \E r \in {BlocksSet(blocks, id, item)} :
         /\ blocks' = r.b
         /\ res' = [op |-> "Set", err |-> r.err]
  /\ UNCHANGED <<kbpk, header, text, wrapped, iter, vault>>

\* header.Blocks.Delete(id)
BlocksDeleteAct ==
  /\ res.op = "Idle"
  /\ \E id \in DOMAIN blocks :
       /\ blocks' = BlocksDelete(blocks, id)
       /\ res' = [op |-> "Delete", err |-> NoErr]
  /\ UNCHANGED <<kbpk, header, text, wrapped, iter, vault>>

WrapStep(key, m, seed, order, capSlack) ==
  \E r \in {Wrap(kbpk, header, blocks, order, key, m, seed, capSlack)} :
    \E d \in {HeaderDump(header, blocks, order, WrappedMaskedLen(header, key, m)).err} :
      /\ res' = [op |-> "Wrap"] @@ r
      /\ text' = IF r.err = NoErr THEN r.out ELSE <<>>
      /\ wrapped' = [valid |-> r.err = NoErr, key |-> key, masked |-> m, out |-> r.out,
                     h |-> header, b |-> blocks, order |-> order, seed |-> seed,
                     capSlack |-> capSlack, dumpErr |-> d]
      /\ UNCHANGED <<kbpk, header, blocks, iter, vault>>

\* kb.Wrap(key, maskedKeyLen); the caller keeps the returned string when err is nil
WrapAct ==
  /\ res.op = "Idle"
  /\ \E kl \in KeyLens, m \in MaskedLens, seed \in PadSeeds :
       \E order \in Orders(blocks) :
         \E capSlack \in IF BigPayload \in {blocks[id] : id \in DOMAIN blocks}
                         THEN BOOLEAN ELSE {FALSE} :
           WrapStep(KeyOf(kl), m, seed, order, capSlack)

\* the caller receives a key block that a peer wrapped under the peer's KBPK
ReceiveAct ==
  /\ res.op = "Idle"
  /\ \E order \in Orders(blocks) :
       \E d \in {HeaderDump(header, blocks, order, WrappedMaskedLen(header, KeyOf(8), NoLen)).err} :
         /\ d = NoErr
         /\ \E r \in {Wrap(PeerKbpk, header, blocks, order, KeyOf(8), NoLen, 11, FALSE)} :
              /\ r.err = NoErr
              /\ text' = r.out
  /\ res' = [op |-> "Receive", err |-> NoErr]
  /\ UNCHANGED <<kbpk, header, blocks, wrapped, iter, vault>>

\* kb.Unwrap(text): Header.Load stores what it parsed in the KeyBlock's own header
UnwrapAct ==
  /\ res.op \in {"Wrap", "Receive", "Forge", "Tamper", "Recase"}
  /\ text # <<>>
  /\ \E r \in {Unwrap(kbpk, header, blocks, text)} :
       /\ res' = [op |-> "Unwrap", hBefore |-> header, bBefore |-> blocks] @@ r
       /\ header' = r.h
       /\ blocks' = r.b
  /\ UNCHANGED <<kbpk, text, wrapped, iter, vault>>

\* what a caller or a channel may do to a key block before it is unwrapped
Forgeries == {"version", "length", "mac", "blocks", "short"}

Forge(kind, t) ==
  IF kind = "version" THEN <<90>> \o Drop(t, 1)
  ELSE IF kind = "length" THEN Take(t, 1) \o FmtPad((Len(t) + 1) % 10000, 4, 10, FALSE) \o Drop(t, 5)
  ELSE IF kind = "mac"
  THEN Take(t, Len(t) - 1) \o <<IF t[Len(t)] = 48 THEN 49 ELSE 48>>
  ELSE IF kind = "blocks"
  THEN Take(t, 12) \o <<48, 50>> \o Slice(t, 14, 16) \o KS \o <<48, 54, 97, 98>>
  ELSE Take(t, 10)

ForgeAct ==
  /\ res.op \in {"Wrap", "Receive"}
  /\ text # <<>>
  /\ wrapped.dumpErr = NoErr
  /\ \E kind \in Forgeries :
       /\ text' = Forge(kind, text)
       /\ res' = [op |-> "Forge", err |-> NoErr, kind |-> kind]
  /\ UNCHANGED <<kbpk, header, blocks, wrapped, iter, vault>>

\* the caller has taken note of the outcome and drops the text block
AckAct ==
  /\ res.op # "Idle"
  /\ res' = Idle
  /\ text' = <<>>
  /\ wrapped' = NoWrap
  /\ UNCHANGED <<kbpk, header, blocks, iter, vault>>

Next ==
  \/ BlocksSetAct
  \/ BlocksDeleteAct
  \/ WrapAct
  \/ ReceiveAct
  \/ UnwrapAct
  \/ ForgeAct
  \/ AckAct

Spec == Init /\ [][Next]_vars

(***************************************************************************)
(* The block mapping on its own: a Blocks value under Set, Delete, Load    *)
(* and Dump calls of its owner.                                            *)
(***************************************************************************)
BadID == <<75, 35>>
SetIDs == {KS, PB, BadID}

LongPayload == Rep(120, 252)
Bell == <<7>>
SetItems == {Rep(120, n) : n \in 0..MaxPayload} \cup {LongPayload, Bell}

AlgoBlockSizes == {8, 16}

\* block areas handed to Load: "KS07abc", "KS07abc" with a pad block, a payload
\* with a control character, an ID that is not alphanumeric
LoadInputs ==
  {[num |-> 1, str |-> KS \o <<48, 55, 97, 98, 99>>],
   [num |-> 2, str |-> KS \o <<48, 55, 97, 98, 99>> \o PB \o <<48, 57>> \o Rep(48, 5)],
   [num |-> 1, str |-> TC \o <<48, 53>> \o Bell],
   [num |-> 1, str |-> BadID \o <<48, 52>>],
   [num |-> 2, str |-> KS \o <<48, 55, 97, 98, 99>>],
   [num |-> 1, str |-> TC \o <<48, 48, 48, 48, 48, 48>>],
   [num |-> 1, str |-> TC \o <<48, 51, 97, 98>>],
   [num |-> 1, str |-> TC \o <<48, 57, 97, 98>>]}

InitBlocks ==
  /\ kbpk = KbpkOf(16)
  /\ header = DefaultHeader
  /\ blocks = EmptyBlocks
  /\ text = <<>>
  /\ res = Idle
  /\ wrapped = NoWrap
  /\ iter = NoIter
  /\ vault = NoVault

\* b.Set(id, item)
SetCall ==
  /\ \E id \in SetIDs, item \in SetItems :
       \E r \in {BlocksSet(blocks, id, item)} :
         /\ blocks' = r.b
         /\ res' = [op |-> "Set", err |-> r.err, id |-> id]
  /\ UNCHANGED <<kbpk, header, text, wrapped, iter, vault>>

\* b.Delete(id)
DeleteCall ==
  /\ \E id \in SetIDs :
       /\ blocks' = BlocksDelete(blocks, id)
       /\ res' = [op |-> "Delete", err |-> NoErr, id |-> id]
  /\ UNCHANGED <<kbpk, header, text, wrapped, iter, vault>>

\* b.Load(num, str)
LoadCall ==
  /\ \E inp \in LoadInputs :
       \E r \in {BlocksLoad(inp.num, inp.str)} :
         /\ blocks' = r.b
         /\ res' = [op |-> "Load", err |-> r.err, n |-> r.n, num |-> inp.num, str |-> inp.str]
  /\ UNCHANGED <<kbpk, header, text, wrapped, iter, vault>>

\* b.Dump(algoBlockSize)
DumpCall ==
  /\ \E bs \in AlgoBlockSizes, order \in Orders(blocks) :
       \E r \in {BlocksDump(blocks, order, bs)} :
         res' = [op |-> "Dump", err |-> r.err, num |-> r.num, str |-> r.str,
                 bs |-> bs, order |-> order]
  /\ UNCHANGED <<kbpk, header, blocks, text, wrapped, iter, vault>>

NextBlocks ==
  \/ SetCall
  \/ DeleteCall
  \/ LoadCall
  \/ DumpCall

SpecBlocks == InitBlocks /\ [][NextBlocks]_vars

(***************************************************************************)
(* A key block on a channel that flips one bit of one character.           *)
(***************************************************************************)
TamperKeyLen == 5

FlipBit(c, bit) == BitXor(c, 2 ^ bit, 8)

InitTamper ==
  \E v \in Versions, b \in {EmptyBlocks, MapPut(EmptyBlocks, KS, <<97, 98, 99>>)} :
    \E kb \in {NewKeyBlock(KbpkOf(16), NewHeaderOf(v, Alg0), b)} :
      /\ kb.ok
      /\ kbpk = KbpkOf(16)
      /\ header = kb.h
      /\ blocks = kb.b
      /\ text = <<>>
      /\ res = Idle
      /\ wrapped = NoWrap
      /\ iter = NoIter
      /\ vault = NoVault

\* kb.Wrap(key, nil)
TamperWrapAct ==
  /\ res.op = "Idle"
  /\ \E seed \in PadSeeds, order \in Orders(blocks) :
       WrapStep(KeyOf(TamperKeyLen), NoLen, seed, order, FALSE)

\* the channel flips one bit of one character of the emitted key block
TamperAct ==
  /\ res.op = "Wrap"
  /\ res.err = NoErr
  /\ \E pos \in 1..Len(text), bit \in 0..7 :
       /\ text' = [text EXCEPT ![pos] = FlipBit(text[pos], bit)]
       /\ res' = [op |-> "Tamper", err |-> NoErr, pos |-> pos, bit |-> bit]
  /\ UNCHANGED <<kbpk, header, blocks, wrapped, iter, vault>>

\* the channel rewrites the hex digits of the ciphertext and the MAC in one
\* letter case
RecaseAct ==
  /\ res.op = "Wrap"
  /\ res.err = NoErr
  /\ \E upper \in BOOLEAN :
       \E n \in {16 + Len(BlocksDump(blocks, wrapped.order,
                                     versionIDAlgoBlockSize(header.VersionID)).str)} :
         /\ text' = Take(text, n) \o (IF upper THEN ToUpper(Drop(text, n)) ELSE ToLower(Drop(text, n)))
         /\ res' = [op |-> "Recase", err |-> NoErr, upper |-> upper]
  /\ UNCHANGED <<kbpk, header, blocks, wrapped, iter, vault>>

NextTamper ==
  \/ TamperWrapAct
  \/ TamperAct
  \/ RecaseAct
  \/ UnwrapAct

SpecTamper == InitTamper /\ [][NextTamper]_vars

(***************************************************************************)
(* Properties.                                                             *)
(***************************************************************************)
\* the text block under Unwrap is the string the last Wrap returned, and that
\* Wrap serialized its header (the header is valid: Header.Dump gave no error)
UnwrapOfWrapped ==
  /\ res.op = "Unwrap"
  /\ wrapped.valid
  /\ wrapped.dumpErr = NoErr
  /\ text = wrapped.out

\* C1: round trip.  Under a KBPK whose length the version allows and a header
\* that serializes, Wrap(k, maskedKeyLen) returns a key block; Unwrap of that
\* string under the same KBPK returns exactly k without error, and the header
\* held after Unwrap has the fixed fields of the header Wrap used.
C1_RoundTrip ==
  /\ (res.op = "Wrap" /\ KbpkAllowed(header.VersionID, kbpk) /\ wrapped.dumpErr = NoErr) =>
       res.err = NoErr
  /\ UnwrapOfWrapped =>
       /\ res.err = NoErr
       /\ res.key = wrapped.key
       /\ FixedFields(header) = FixedFields(wrapped.h)

\* a round trip of a non-empty key under a header with an optional block
C1_Witness ==
  /\ UnwrapOfWrapped
  /\ res.err = NoErr
  /\ Len(res.key) = 8 * MaxKeyLen
  /\ DOMAIN wrapped.b # {}
  /\ wrapped.h.VersionID = VerD

\* C2: authentication.  Unwrap returns no error only after it compared the MAC
\* it recomputed with the received MAC and found them equal; when the two
\* differ, or MAC generation failed, it returns an error and no key bytes.
C2_Authentication ==
  res.op = "Unwrap" =>
    /\ res.err = NoErr =>
         res.macChecked /\ res.macCalc = res.macRecv /\ res.macErr = NoErr
    /\ (res.macChecked /\ (res.macCalc # res.macRecv \/ res.macErr # NoErr)) =>
         res.err # NoErr /\ res.key = <<>>

\* a key block whose MAC field was altered is rejected after the comparison
C2_Witness ==
  /\ res.op = "Unwrap"
  /\ res.macChecked
  /\ res.macCalc # res.macRecv
  /\ res.err.kind = "KeyBlockError"
  /\ res.key = <<>>
  /\ header.VersionID = VerA

\* the text block under Unwrap is the string the last Wrap returned with one
\* bit of one character flipped
TamperedAt == CHOOSE p \in 1..Len(text) : text[p] # wrapped.out[p]

OneBitFlipped ==
  /\ res.op = "Unwrap"
  /\ wrapped.valid
  /\ wrapped.dumpErr = NoErr
  /\ Len(text) = Len(wrapped.out)
  /\ Cardinality({p \in 1..Len(text) : text[p] # wrapped.out[p]}) = 1
  /\ \E bit \in 0..7 : text[TamperedAt] = FlipBit(wrapped.out[TamperedAt], bit)

\* the characters of the emitted key block before the hex ciphertext
WrappedHeaderLen ==
  16 + Len(BlocksDump(wrapped.b, wrapped.order,
                      versionIDAlgoBlockSize(wrapped.h.VersionID)).str)

\* the flip changed the letter case of a hex digit of the ciphertext or the MAC
HexCaseFlip ==
  /\ TamperedAt > WrappedHeaderLen
  /\ ToUpper(text) = ToUpper(wrapped.out)

C4_LengthFraming ==
  (res.op = "Wrap" /\ res.err = NoErr) =>
    /\ Len(res.out) >= 5
    /\ asciiNumeric(Slice(res.out, 1, 5))
    /\ stringToInt(Slice(res.out, 1, 5)) = Len(res.out)
    /\ Len(res.out) % versionIDAlgoBlockSize(header.VersionID) = 0

\* C5: block-area alignment.  The block area returned by a successful
\* Blocks.Dump for block size 8 or 16 has a length that is a multiple of the
\* block size; it is the concatenation of the caller blocks followed by a PB
\* block (length field 4+padNum, padNum '0' characters) exactly when that
\* concatenation is non-empty and not a multiple of the block size.
C5_BlockAreaAligned ==
  (res.op = "Dump" /\ res.err = NoErr) =>
    LET body == DumpList(blocks, res.order)
    IN /\ Len(res.str) % res.bs = 0
       /\ IF body # <<>> /\ Len(body) % res.bs # 0
          THEN \E p \in 1..res.bs :
                 res.str = body \o PB \o FmtPad(4 + p, 2, 16, TRUE) \o Rep(48, p)
          ELSE res.str = body

\* two caller blocks whose concatenation needed a PB block for block size 16
C5_Witness ==
  /\ res.op = "Dump"
  /\ res.err = NoErr
  /\ res.bs = 16
  /\ Cardinality(DOMAIN blocks) = 2
  /\ res.num = 3
  /\ Len(res.str) = 32
  /\ Len(DumpList(blocks, res.order)) % 16 = 12

\* C6: after any sequence of Set, Delete and Load calls the mapping holds no
\* "PB" entry, every ID is two alphanumeric characters and every value is
\* printable ASCII.
C6_MappingClean ==
  \A id \in DOMAIN blocks :
    /\ id # PB
    /\ Len(id) = 2
    /\ asciiAlphanumeric(id)
    /\ asciiPrintable(blocks[id])

\* the masked key length and the block size as the specification states them
C7_MaskedKeyLen ==
  LET k == Len(wrapped.key)
      a == wrapped.h.Algorithm
      dflt == IF a \in {<<84>>, <<68>>} THEN 24 ELSE IF a = <<65>> THEN 32 ELSE k
  IN Max(IF wrapped.masked = NoLen THEN dflt ELSE wrapped.masked, k)

C7_BlockSize == IF wrapped.h.VersionID = VerD THEN 16 ELSE 8

\* C7: masked padding.  The clear key data Wrap encrypts is 2 + maskedKeyLen +
\* padLen bytes long, where maskedKeyLen is the larger of the key length and the
\* caller's value (or the Algorithm's default, or the key length when there is
\* none) and padLen = blockSize - ((2 + maskedKeyLen) mod blockSize); a key of
\* another length not above maskedKeyLen gives a key block of the same length.
C7_MaskedPadding ==
  (res.op = "Wrap" /\ res.err = NoErr) =>
    /\ res.clearLen = 2 + C7_MaskedKeyLen + (C7_BlockSize - ((2 + C7_MaskedKeyLen) % C7_BlockSize))
    /\ \A kl \in KeyLens :
         (kl <= C7_MaskedKeyLen /\ kl # Len(wrapped.key)) =>
           Len(Wrap(kbpk, wrapped.h, wrapped.b, wrapped.order, KeyOf(kl), C7_MaskedKeyLen,
                    wrapped.seed, wrapped.capSlack).out) = Len(res.out)

\* a 5-byte key wrapped under Algorithm "A" without a caller value is masked to 32
C7_Witness ==
  /\ res.op = "Wrap"
  /\ res.err = NoErr
  /\ wrapped.masked = NoLen
  /\ wrapped.h.Algorithm = AlgA
  /\ Len(wrapped.key) = 5
  /\ res.clearLen = 48

\* C8: KBPK-size policing.  With a KBPK whose length the version does not allow,
\* Wrap and Unwrap return a KeyBlockError and have invoked no derivation, cipher
\* or MAC.
C8_KbpkPolicing ==
  (res.op \in {"Wrap", "Unwrap"} /\ ~KbpkAllowed(header.VersionID, kbpk)) =>
    /\ res.err.kind = "KeyBlockError"
    /\ ~res.crypto

\* C9: when the header parser rejects the text block, Unwrap returns the
\* parser's HeaderError.
C9_HeaderErrorReturned ==
  (res.op = "Unwrap" /\ res.loadErr.kind = "HeaderError") => res.err = res.loadErr

\* C10: Unwrap of a text block of at least 16 characters whose four length
\* digits differ from its actual length returns the length-mismatch KeyBlockError.
C10_LengthMismatch ==
  (/\ res.op = "Unwrap"
   /\ Len(text) >= 16
   /\ asciiNumeric(Slice(text, 1, 5))
   /\ stringToInt(Slice(text, 1, 5)) # Len(text)) =>
    res.err = KeyBlockError("Key block header length doesn't match input data length.")

\* C11: when Header.Dump fails for the header at hand (total length over 9999,
\* or a block too long to encode), Wrap returns an error and no key block.
C11_WrapFailsWhenDumpFails ==
  (res.op = "Wrap" /\ wrapped.dumpErr # NoErr) =>
    /\ res.err # NoErr
    /\ res.out = <<>>

\* C12: Unwrap leaves the KeyBlock as it found it: the header's fixed fields
\* and its block mapping after the call are those before the call.
C12_UnwrapKeepsKeyBlock ==
  res.op = "Unwrap" =>
    /\ FixedFields(header) = FixedFields(res.hBefore)
    /\ blocks = res.bBefore

\* C13: truncated input.  For a text block shorter than the 16-character fixed
\* header Unwrap returns an error value, and the header parser, when Unwrap
\* calls it (5 to 15 characters), returns a HeaderError; neither aborts.
C13_TruncatedInputError ==
  (res.op = "Unwrap" /\ Len(text) < 16) =>
    /\ res.err.kind \in {"HeaderError", "KeyBlockError"}
    /\ Len(text) >= 5 => res.loadErr.kind = "HeaderError"

\* ---------------------------------------------------------------------------
\* The header codec on its own: a header with caller blocks is rendered with
\* Header.String and the string is parsed by Header.Load into a fresh header.
\* ---------------------------------------------------------------------------
HeaderIDs == {KS, TC}
TCPayload == Rep(120, 600)
HeaderItems == {Rep(120, n) : n \in 0..MaxPayload} \cup {LongPayload, TCPayload}
HeaderUsages == {<<80, 48>>, <<75, 49>>}

InitHeader ==
  /\ kbpk = KbpkOf(16)
  /\ \E v \in Versions, u \in HeaderUsages :
       header = [NewHeaderOf(v, Alg0) EXCEPT !.KeyUsage = u]
  /\ blocks = EmptyBlocks
  /\ text = <<>>
  /\ res = Idle
  /\ wrapped = NoWrap
  /\ iter = NoIter
  /\ vault = NoVault

\* h.Blocks.Set(id, item); the caller fills the header before serializing it
HeaderSetCall ==
  /\ res.op \in {"Idle", "Set"}
  /\ \E id \in HeaderIDs, item \in HeaderItems :
       \E r \in {BlocksSet(blocks, id, item)} :
         /\ blocks' = r.b
         /\ res' = [op |-> "Set", err |-> r.err, id |-> id]
  /\ UNCHANGED <<kbpk, header, text, wrapped, iter, vault>>

\* s := h.String()
HeaderStringCall ==
  /\ \E order \in Orders(blocks) :
       res' = [op |-> "String", err |-> NoErr, str |-> HeaderString(header, blocks, order)]
  /\ UNCHANGED <<kbpk, header, blocks, text, wrapped, iter, vault>>

\* h2 := DefaultHeader(); n, err := h2.Load(s), and h2 takes the place of h
HeaderLoadCall ==
  /\ res.op = "String"
  /\ \E r \in {HeaderLoad(DefaultHeader, EmptyBlocks, res.str)} :
       /\ header' = r.h
       /\ blocks' = r.b
       /\ res' = [op |-> "HeaderLoad", err |-> r.err, n |-> r.n, str |-> res.str,
                  hBefore |-> header, bBefore |-> blocks]
  /\ UNCHANGED <<kbpk, text, wrapped, iter, vault>>

\* the header strings a caller derives from s: s itself, its prefixes of 4
\* and of 15 characters, and s under an unknown version ID
HeaderTexts(s) == {Take(s, n) : n \in {4, 15, Len(s)}} \cup {<<90>> \o Drop(s, 1)}
NewKbpks == {<<>>, KbpkOf(16)}

\* kb, err := NewKeyBlock(k, iheader); a nil kb leaves the caller with the
\* KeyBlock it had
NewKeyBlockCall ==
  /\ res.op = "String"
  /\ \E k \in NewKbpks, iheader \in HeaderTexts(res.str) :
       \E r \in {NewKeyBlockFromString(k, iheader)} :
         /\ kbpk' = IF r.ok THEN k ELSE kbpk
         /\ header' = IF r.ok THEN r.h ELSE header
         /\ blocks' = IF r.ok THEN r.b ELSE blocks
         /\ res' = [op |-> "NewKeyBlock", err |-> r.err, k |-> k, iheader |-> iheader]
  /\ UNCHANGED <<text, wrapped, iter, vault>>

NextHeader ==
  \/ HeaderSetCall
  \/ HeaderStringCall
  \/ HeaderLoadCall
  \/ DumpCall
  \/ NewKeyBlockCall

SpecHeader == InitHeader /\ [][NextHeader]_vars

\* C14: Header.Load of the string Header.String produced succeeds, consumes
\* the whole string, and yields the fixed fields and the caller's block
\* mapping that were serialized, the PB block of the string discarded.
C14_HeaderCodecRoundTrip ==
  res.op = "HeaderLoad" =>
    /\ res.err = NoErr
    /\ res.n = Len(res.str)
    /\ FixedFields(header) = FixedFields(res.hBefore)
    /\ blocks = res.bBefore

\* the block Blocks.Dump wrote first, and its payload
FirstID == res.order[1]
FirstData == blocks[res.order[1]]
ExtendedFirst == res.op = "Dump" /\ res.err = NoErr /\ res.order # <<>> /\ Len(FirstData) + 4 > 255

\* C15 as stated: the TC block with the 600-character payload is framed with
\* the length-of-length "04".
C15_FramingLenOfLen04 ==
  (ExtendedFirst /\ FirstID = TC /\ FirstData = TCPayload) =>
    Take(res.str, 610) = TC \o <<48, 48>> \o <<48, 52>> \o <<48, 50, 54, 50>> \o TCPayload

\* C15, amended: a block whose payload length plus 4 exceeds 255 is emitted as
\* ID, "00", the length-of-length "02" (the length field's size in bytes, two
\* hex characters each), a four-character length field that counts the whole
\* block, and the payload; the TC block with 600 characters starts "TC00020262".
C15_ExtendedFraming ==
  ExtendedFirst =>
    /\ Take(res.str, 6) = FirstID \o <<48, 48>> \o <<48, 50>>
    /\ isAsciiHex(Slice(res.str, 6, 10))
    /\ ParseBase(Slice(res.str, 6, 10), 16) = 2 + 2 + 2 + 4 + Len(FirstData)
    /\ Slice(res.str, 10, 10 + Len(FirstData)) = FirstData
    /\ (FirstID = TC /\ FirstData = TCPayload) =>
         Take(res.str, 10) = <<84, 67, 48, 48, 48, 50, 48, 50, 54, 50>>

\* Blocks.Dump has written the TC block with the 600-character payload first,
\* followed by another block
C15_Witness ==
  /\ ExtendedFirst
  /\ FirstID = TC
  /\ FirstData = TCPayload
  /\ Len(res.order) = 2
  /\ Len(res.str) > 610

\* C16: an error NewKeyBlock or Header.Load returns is a HeaderError or a
\* KeyBlockError, whatever the KBPK and the header string.
C16_ErrorKinds ==
  (res.op \in {"NewKeyBlock", "HeaderLoad"} /\ res.err.kind \notin {"nil", "panic"}) =>
    res.err.kind \in {"HeaderError", "KeyBlockError"}

\* the key block at hand is the emitted one up to the letter case of the hex
\* digits of its ciphertext and MAC
SameUpToHexCase ==
  /\ wrapped.valid
  /\ wrapped.dumpErr = NoErr
  /\ Len(text) = Len(wrapped.out)
  /\ Take(text, WrappedHeaderLen) = Take(wrapped.out, WrappedHeaderLen)
  /\ ToUpper(text) = ToUpper(wrapped.out)

\* C17: Wrap writes the ciphertext and the MAC in uppercase hex for versions A
\* and C and in lowercase hex for versions B and D, and Unwrap returns the
\* wrapped key whatever the letter case of those hex digits.
C17_HexCase ==
  /\ (res.op = "Wrap" /\ res.err = NoErr /\ wrapped.dumpErr = NoErr) =>
       LET hex == Drop(res.out, WrappedHeaderLen)
       IN IF wrapped.h.VersionID \in {VerA, VerC} THEN hex = ToUpper(hex) ELSE hex = ToLower(hex)
  /\ (res.op = "Unwrap" /\ SameUpToHexCase) =>
       /\ res.err = NoErr
       /\ res.key = wrapped.key

\* a version B key block whose lowercase hex digits were all rewritten in
\* uppercase has been unwrapped
C17_Witness ==
  /\ res.op = "Unwrap"
  /\ SameUpToHexCase
  /\ wrapped.h.VersionID = VerB
  /\ \E p \in 1..Len(text) : wrapped.out[p] \in 97..102
  /\ text = Take(text, WrappedHeaderLen) \o ToUpper(Drop(wrapped.out, WrappedHeaderLen))
  /\ Cardinality({p \in 1..Len(text) : text[p] # wrapped.out[p]}) > 1
  /\ res.key = wrapped.key

\* ---------------------------------------------------------------------------
\* Blocks.Iter: the call makes an unbuffered channel, starts a goroutine that
\* ranges over the mapping and sends each key, and returns the channel.  iter
\* is that goroutine: where it stands (pc), the keys the consumer has taken
\* (seen), the key it is offering (key), whether the mapping was written
\* while it ranged (dirty) and whether the consumer has stopped receiving.
\* ---------------------------------------------------------------------------
IterItems == {<<>>, <<120>>}

\* b.Set(id, item) by the caller; a write while the goroutine is ranging is
\* a data race on the map
IterSetCall ==
  /\ iter.pc # "fatal"
  /\ \E id \in HeaderIDs, item \in IterItems :
       \E r \in {BlocksSet(blocks, id, item)} :
         /\ blocks' = r.b
         /\ res' = [op |-> "Set", err |-> r.err, id |-> id]
  /\ iter' = [iter EXCEPT !.dirty = @ \/ iter.pc \in {"ranging", "sending"}]
  /\ UNCHANGED <<kbpk, header, text, wrapped, vault>>

\* ch := b.Iter(): returns at once, the goroutine has not read anything yet
IterCall ==
  /\ iter.pc \in {"none", "done"}
  /\ iter' = [pc |-> "ranging", seen |-> {}, key |-> <<>>, dirty |-> FALSE, stopped |-> FALSE]
  /\ res' = [op |-> "Iter", err |-> NoErr]
  /\ UNCHANGED <<kbpk, header, blocks, text, wrapped, vault>>

\* the goroutine: the next step of for key := range b._blocks, then ch <- key,
\* or close(ch) when the range is over; after a racing write the runtime may
\* stop the program (concurrent map iteration and map write)
IterRange ==
  /\ iter.pc = "ranging"
  /\ \/ /\ iter.dirty
        /\ iter' = [iter EXCEPT !.pc = "fatal"]
     \/ /\ DOMAIN blocks \subseteq iter.seen
        /\ iter' = [iter EXCEPT !.pc = "done"]
     \/ \E key \in DOMAIN blocks \ iter.seen :
          iter' = [iter EXCEPT !.pc = "sending", !.key = key]
  /\ UNCHANGED <<kbpk, header, blocks, text, res, wrapped, vault>>

\* key := <-ch by the consumer
IterRecv ==
  /\ iter.pc = "sending"
  /\ ~iter.stopped
  /\ iter' = [iter EXCEPT !.pc = "ranging", !.seen = @ \cup {iter.key}]
  /\ res' = [op |-> "Recv", err |-> NoErr, key |-> iter.key]
  /\ UNCHANGED <<kbpk, header, blocks, text, wrapped, vault>>

\* the consumer leaves its loop before the channel is closed
IterStop ==
  /\ iter.pc \in {"ranging", "sending"}
  /\ ~iter.stopped
  /\ iter' = [iter EXCEPT !.stopped = TRUE]
  /\ res' = [op |-> "Stop", err |-> NoErr]
  /\ UNCHANGED <<kbpk, header, blocks, text, wrapped, vault>>

NextIter ==
  \/ IterSetCall
  \/ IterCall
  \/ IterRange
  \/ IterRecv
  \/ IterStop

SpecIter == InitBlocks /\ [][NextIter]_vars

\* C18: no internal concurrency.  When Blocks.Iter has returned, every read of
\* the mapping it causes has been made, and a consumer that has stopped
\* receiving leaves nothing blocked on the channel.
C18_IterCompletesBeforeReturn ==
  /\ res.op = "Iter" => iter.pc = "done"
  /\ iter.stopped => iter.pc # "sending"

\* ---------------------------------------------------------------------------
\* Key derivation on its own: the KBEK and KBAK the version's wrap and unwrap
\* functions derive from the KBPK, once their KBPK length test has passed.
\* ---------------------------------------------------------------------------
DeriveSeeds == 1..10
DeriveKbpks == {[i \in 1..n |-> (s * i + 1) % 256] \o <<>> : n \in KbpkLens, s \in DeriveSeeds}

InitDerive ==
  /\ kbpk \in DeriveKbpks
  /\ header = DefaultHeader
  /\ blocks = EmptyBlocks
  /\ text = <<>>
  /\ res = Idle
  /\ wrapped = NoWrap
  /\ iter = NoIter
  /\ vault = NoVault

\* kbek, kbak, err := kb.BDerive() / kb.dDerive() / the masks of version A and C
DeriveCall ==
  /\ \E v \in Versions :
       /\ KbpkAllowed(v, kbpk)
       /\ \E r \in {IF v = VerB THEN BDerive(kbpk) ELSE IF v = VerD THEN dDerive(kbpk) ELSE cDerive(kbpk)} :
            res' = [op |-> "Derive", v |-> v, err |-> r.err, kbek |-> r.kbek, kbak |-> r.kbak]
  /\ UNCHANGED <<kbpk, header, blocks, text, wrapped, iter, vault>>

SpecDerive == InitDerive /\ [][DeriveCall]_vars

\* the 16-byte output of version D's CBC-MAC for one counter and one role
\* (0 encryption, 1 authentication)
DRoleOutput(counter, role) ==
  LET kd == <<counter, 0, role, 0, 0,
              IF Len(kbpk) = 16 THEN 2 ELSE IF Len(kbpk) = 24 THEN 3 ELSE 4,
              IF Len(kbpk) = 32 THEN 1 ELSE 0,
              IF Len(kbpk) = 16 THEN 128 ELSE IF Len(kbpk) = 24 THEN 192 ELSE 0,
              128, 0, 0, 0, 0, 0, 0, 0>>
  IN generateCBCMAC(kbpk, xor(kd, deriveAESCMACSubkeys(kbpk).k2), 1, 16, AES).val

DRoleMaterial(role) ==
  IF Len(kbpk) = 16 THEN DRoleOutput(1, role)
  ELSE DRoleOutput(1, role) \o DRoleOutput(2, role)

\* C19: version D derivation.  KBEK is the first |KBPK| bytes of the
\* encryption-role outputs and KBAK the first |KBPK| bytes of the MAC-role
\* outputs, one output per counter.
C19_DRolesSeparate ==
  (res.op = "Derive" /\ res.v = VerD /\ res.err = NoErr) =>
    /\ res.kbek = Take(DRoleMaterial(0), Len(kbpk))
    /\ res.kbak = Take(DRoleMaterial(1), Len(kbpk))

\* C20: for every version and every KBPK length it allows, the derived KBEK
\* and KBAK have the KBPK's length: 8 bytes per counter for version B, 16 per
\* counter cut to the KBPK's length for version D, a mask as long as the KBPK
\* for versions A and C.
C20_DerivedKeyLens ==
  res.op = "Derive" =>
    /\ res.err = NoErr
    /\ Len(res.kbek) = Len(kbpk)
    /\ Len(res.kbak) = Len(kbpk)
    /\ res.v = VerB => Len(res.kbek) = 8 * (IF Len(kbpk) = 16 THEN 2 ELSE 3)
    /\ res.v = VerD => /\ 16 * (IF Len(kbpk) = 16 THEN 1 ELSE 2) >= Len(res.kbek)
                       /\ res.kbek = Take(DRoleMaterial(0), Len(kbpk))
    /\ res.v \in {VerA, VerC} => /\ res.kbek = xor(kbpk, Rep(69, Len(kbpk)))
                                /\ res.kbak = xor(kbpk, Rep(77, Len(kbpk)))

\* version D has derived its two keys from a 24-byte KBPK: 32 bytes of
\* material per role, cut to 24
C20_Witness ==
  /\ res.op = "Derive"
  /\ res.v = VerD
  /\ Len(kbpk) = 24
  /\ Len(DRoleMaterial(0)) = 32
  /\ Len(res.kbek) = 24
  /\ Len(res.kbak) = 24
  /\ res.kbek # res.kbak

\* C21: Blocks.Load answers every input it rejects with a HeaderError, and a
\* block count that announces a block the input does not hold (its ID
\* missing), a zero length-of-length, a length below the frame overhead and a
\* payload longer than the rest of the input are all rejected.
C21_LoadRejectsWithHeaderError ==
  res.op = "Load" =>
    /\ res.err # NoErr => res.err.kind = "HeaderError"
    /\ (res.num = 2 /\ Len(res.str) = 7) => res.err # NoErr
    /\ (res.num = 1 /\ Take(res.str, 2) = TC /\ Len(res.str) \in {6, 8}) => res.err # NoErr

\* the characters the caller's blocks take in the block area: ID, length
\* field (two characters, or ten in the extended form) and payload
RECURSIVE CallerAreaLen(_)
CallerAreaLen(b) ==
  IF DOMAIN b = {} THEN 0
  ELSE LET id == CHOOSE x \in DOMAIN b : TRUE
       IN (IF Len(b[id]) + 4 <= 255 THEN 4 ELSE 10) + Len(b[id])
          + CallerAreaLen([x \in DOMAIN b \ {id} |-> b[x]])

\* the block count a serialized header of b must announce
ExpectedBlocksNum(b, str) ==
  Cardinality(DOMAIN b) + (IF Len(str) - 16 > CallerAreaLen(b) THEN 1 ELSE 0)

\* C22: the serialized header has a 16-character fixed prefix whose two
\* digits at positions 12..13 count the caller's blocks plus the PB block if
\* one was appended, and Header.Load of the string reads exactly that many
\* blocks: it ends without error at the end of the string.
C22_BlockCountField ==
  /\ res.op = "String" =>
       /\ Len(res.str) >= 16 + CallerAreaLen(blocks)
       /\ Slice(res.str, 14, 16) = header.Reserved
       /\ asciiNumeric(Slice(res.str, 12, 14))
       /\ stringToInt(Slice(res.str, 12, 14)) = ExpectedBlocksNum(blocks, res.str)
  /\ res.op = "HeaderLoad" =>
       /\ stringToInt(Slice(res.str, 12, 14)) = ExpectedBlocksNum(res.bBefore, res.str)
       /\ res.err = NoErr
       /\ res.n = Len(res.str)

\* the header and the encrypted key that Unwrap handed to the version's
\* unwrap function: the characters before and after the parsed header length
UnwrapHeaderLen == HeaderLoad(res.hBefore, res.bBefore, text).n
UnwrapHeader == Take(text, UnwrapHeaderLen)
UnwrapKeyData ==
  HexDecode(Slice(text, UnwrapHeaderLen,
                  Len(text) - 2 * versionIDKeyBlockMacLen(header.VersionID))).val

CUnwrapChecked ==
  /\ res.op = "Unwrap"
  /\ header.VersionID \in {VerA, VerC}
  /\ res.macChecked

\* C23: version A/C unwrap ordering.  The MAC CUnwrap compares with the
\* received one is computed under KBAK over the header followed by the
\* ciphertext, and when the two differ nothing has been decrypted and the
\* error is the KeyBlockError "Key block MAC doesn't match generated MAC.".
C23_MacBeforeDecrypt ==
  CUnwrapChecked =>
    /\ res.macCalc = generateCBCMAC(xor(kbpk, Rep(77, Len(kbpk))),
                                    UnwrapHeader \o UnwrapKeyData, 1, 4, DES).val
    /\ res.macCalc # res.macRecv =>
         /\ ~res.decrypted
         /\ res.key = <<>>
         /\ res.err = KeyBlockError("Key block MAC doesn't match generated MAC.")
    /\ res.macCalc = res.macRecv => res.decrypted

\* a version C key block with a forged MAC has been refused without decryption
C23_Witness ==
  /\ CUnwrapChecked
  /\ header.VersionID = VerC
  /\ Len(UnwrapHeader) >= 16
  /\ Len(res.macRecv) = 4
  /\ res.macCalc # res.macRecv
  /\ ~res.decrypted
  /\ res.err.kind = "KeyBlockError"

\* ---------------------------------------------------------------------------
\* The MAC primitives on their own: GenerateCBCMAC, padISO3 and the CMAC
\* subkey derivations, applied to arguments drawn from small sets.  They are
\* pure functions: a behaviour is one application.
\* ---------------------------------------------------------------------------
PrimBytes(n, s) == [i \in 1..n |-> (s * i + 1) % 256] \o <<>>
MacKeys == {Nil, <<>>, PrimBytes(8, 17), PrimBytes(16, 17)}
MacDatas == {Nil, <<>>, PrimBytes(1, 3), PrimBytes(8, 3), PrimBytes(9, 3)}
MacPaddings == (0 - 1)..4
MacLengths == {0, 4, 8}
PadLens == 0..17 \cup {32, 33}
PadBlockSizes == {0, 3, 4, 5, 8, 16}

\* mac, err := GenerateCBCMAC(key, data, padding, length, algorithm)
MacCall ==
  /\ res.op = "Idle"
  /\ \E key \in MacKeys, data \in MacDatas, padding \in MacPaddings,
        length \in MacLengths, algorithm \in {DES, AES} :
       \E r \in {generateCBCMAC(key, data, padding, length, algorithm)} :
         res' = [op |-> "MAC", err |-> r.err, val |-> r.val, key |-> key, data |-> data,
                 padding |-> padding, length |-> length, algorithm |-> algorithm]
  /\ UNCHANGED <<kbpk, header, blocks, text, wrapped, iter, vault>>

\* out, _ := padISO3(data, blockSize)
PadCall ==
  /\ res.op = "Idle"
  /\ \E n \in PadLens, blockSize \in PadBlockSizes :
       res' = [op |-> "padISO3", err |-> NoErr, data |-> PrimBytes(n, 7), blockSize |-> blockSize,
               out |-> padISO3(PrimBytes(n, 7), blockSize)]
  /\ UNCHANGED <<kbpk, header, blocks, text, wrapped, iter, vault>>

\* k1, k2, err := kb.deriveDesCmacSubkey(key) / kb.deriveAESCMACSubkeys(key)
SubkeyCall ==
  /\ res.op = "Idle"
  /\ \E key \in DeriveKbpks, algorithm \in {DES, AES} :
       \E r \in {IF algorithm = DES THEN deriveDesCmacSubkey(key) ELSE deriveAESCMACSubkeys(key)} :
         res' = [op |-> "Subkey", err |-> IF r.ok THEN NoErr ELSE PlainError("cipher failure"),
                 key |-> key, algorithm |-> algorithm, k1 |-> r.k1, k2 |-> r.k2]
  /\ UNCHANGED <<kbpk, header, blocks, text, wrapped, iter, vault>>

NextPrim ==
  \/ MacCall
  \/ PadCall
  \/ SubkeyCall

SpecPrim == InitBlocks /\ [][NextPrim]_vars

\* C24: GenerateCBCMAC answers empty data, an empty key (nil or of length
\* zero) and a padding mode outside 1..3 with an error value: it does not
\* abort and it does not get as far as the cipher.
C24_MacArgumentErrors ==
  (/\ res.op = "MAC"
   /\ \/ res.data \in {Nil, <<>>}
      \/ res.key \in {Nil, <<>>}
      \/ res.padding \notin 1..3) =>
    /\ res.err.kind = "error"
    /\ res.err.msg # "cipher failure"

\* the last two bytes of a block that holds the bit length of n bytes as a
\* big-endian integer; the bytes before them are zero for n below 8192
BitLenLow(n) == <<(8 * n) \div 256, (8 * n) % 256>>

PadBlockSize == IF res.blockSize <= 0 THEN 8 ELSE res.blockSize

\* C25: padding mode 3.  The result is one leading block whose value as a
\* big-endian integer over the whole block is 8 times the input length,
\* followed by the mode-1 padding of the input.
C25_PadISO3LengthBlock ==
  (res.op = "padISO3" /\ PadBlockSize >= 2) =>
    /\ Len(res.out) = PadBlockSize + Len(padISO1(res.data, PadBlockSize))
    /\ Take(res.out, PadBlockSize) = Rep(0, PadBlockSize - 2) \o BitLenLow(Len(res.data))
    /\ Drop(res.out, PadBlockSize) = padISO1(res.data, PadBlockSize)

\* the block shifted left by one bit, the bit shifted out dropped, and the
\* constant rb combined into the last byte when the top bit of b was set
CmacDouble(b, rb) ==
  LET n == Len(b)
      shifted == [i \in 1..n |-> (2 * b[i] + (IF i < n THEN b[i + 1] \div 128 ELSE 0)) % 256]
  IN [i \in 1..n |-> IF i = n /\ b[1] \div 128 = 1 THEN BitXor(shifted[i], rb, 8) ELSE shifted[i]] \o <<>>

SubkeyL ==
  IF res.algorithm = DES THEN EncryptTDSECB(res.key, Rep(0, 8)).val
  ELSE EncryptAESECB(res.key, Rep(0, 16)).val

SubkeyRb == IF res.algorithm = DES THEN 27 ELSE 135

\* C26: with L the encryption of the zero block, K1 is L shifted left by one
\* bit (overflow dropped, length kept) combined with Rb when the top bit of L
\* is set, K2 is the same step applied to K1, Rb is 0x1B in the last byte of
\* an 8-byte block and 0x87 in the last byte of a 16-byte block, and both
\* subkeys have the block length.
C26_CmacSubkeys ==
  (res.op = "Subkey" /\ res.err = NoErr) =>
    /\ Len(SubkeyL) = (IF res.algorithm = DES THEN 8 ELSE 16)
    /\ Len(res.k1) = Len(SubkeyL)
    /\ Len(res.k2) = Len(SubkeyL)
    /\ res.k1 = CmacDouble(SubkeyL, SubkeyRb)
    /\ res.k2 = CmacDouble(res.k1, SubkeyRb)

C26_Witness ==
  /\ res.op = "Subkey"
  /\ res.err = NoErr
  /\ res.algorithm = AES
  /\ SubkeyL[1] >= 128
  /\ res.k1[1] >= 128
  /\ res.k2[16] # (2 * res.k1[16]) % 256

C26_WitnessDes ==
  /\ res.op = "Subkey"
  /\ res.err = NoErr
  /\ res.algorithm = DES
  /\ SubkeyL[1] >= 128
  /\ res.k1[1] < 128

(***************************************************************************)
(* Key extraction: a peer that holds the same KBPK builds key blocks whose *)
(* clear key data it chooses freely, and the owner unwraps them.           *)
(***************************************************************************)
\* clear key data of 16 and 32 bytes: length fields of 40, 112 and 240 bits
\* (the latter two fill the data to its end), 0 bits, 41 and 65535 bits (not
\* whole bytes), 120, 256 and 65528 bits (more bytes than the data holds)
ClearLenFields == {<<0, 40>>, <<0, 112>>, <<0, 0>>, <<0, 41>>, <<255, 255>>,
                   <<0, 120>>, <<1, 0>>, <<255, 248>>, <<0, 240>>}
ClearDataLens == {16, 32}
ClearDataOf(f, n) == f \o [i \in 1..(n - 2) |-> (41 * i + 5) % 256]

\* the key block a holder of the KBPK makes of clear key data, by the steps
\* of BWrap, CWrap and DWrap after the clear key data is assembled; the header
\* is the one Dump writes for a key that leaves one byte of padding
Craft(k, h, clearKeyData) ==
  LET hd == HeaderDump(h, EmptyBlocks, <<>>, Len(clearKeyData) - 3).str
  IN IF h.VersionID = VerB
     THEN Bind(BDerive(k), LAMBDA d :
          Bind(bGenerateMac(d.kbak, hd, clearKeyData), LAMBDA mac :
            hd \o HexEncode(EncryptTDESCBC(d.kbek, mac.val, clearKeyData).val) \o HexEncode(mac.val)))
     ELSE IF h.VersionID = VerD
     THEN Bind(dDerive(k), LAMBDA d :
          Bind(dGenerateMAC(d.kbak, hd, clearKeyData), LAMBDA mac :
            hd \o HexEncode(EncryptAESCBC(d.kbek, mac.val, clearKeyData).val) \o HexEncode(mac.val)))
     ELSE Bind(cDerive(k), LAMBDA d :
          Bind(EncryptTDESCBC(d.kbek, Take(hd, 8), clearKeyData).val, LAMBDA enc :
            hd \o ToUpper(HexEncode(enc)) \o ToUpper(HexEncode(cGenerateMAC(d.kbak, hd, enc).val))))

\* the owner receives a key block made under its own KBPK or under the KBPK
\* of another peer
CraftAct ==
  /\ res.op = "Idle"
  /\ KbpkAllowed(header.VersionID, kbpk)
  /\ \E f \in ClearLenFields, n \in ClearDataLens, k \in {kbpk, PeerKbpk} :
       /\ text' = Craft(k, header, ClearDataOf(f, n))
       /\ res' = [op |-> "Receive", err |-> NoErr, clear |-> ClearDataOf(f, n)]
  /\ UNCHANGED <<kbpk, header, blocks, wrapped, iter, vault>>

NextExtract ==
  \/ CraftAct
  \/ UnwrapAct
  \/ AckAct

SpecExtract == Init /\ [][NextExtract]_vars

\* the clear key data the unwrap of the version obtains from the ciphertext
UnwrapClear ==
  IF header.VersionID = VerB
  THEN DecryptTDESCBC(BDerive(kbpk).kbek, res.macRecv, UnwrapKeyData).val
  ELSE IF header.VersionID = VerD
  THEN DecryptAESCBC(dDerive(kbpk).kbek, res.macRecv, UnwrapKeyData).val
  ELSE DecryptTDESCBC(cDerive(kbpk).kbek, Take(UnwrapHeader, 8), UnwrapKeyData).val

UnwrapBitLen == UnwrapClear[1] * 256 + UnwrapClear[2]

MacAccepted == res.op = "Unwrap" /\ res.macChecked /\ res.macCalc = res.macRecv

\* C27: once the MAC is accepted, the unwrap of every version reads the bit
\* length from the first two bytes of the clear key data, big-endian; it
\* fails with a KeyBlockError when the bit length is not a multiple of 8 or
\* bitLen/8 + 2 exceeds the length of the clear key data, and otherwise it
\* returns exactly the bitLen/8 bytes at offsets 2 .. 2 + bitLen/8.
C27_KeyExtraction ==
  MacAccepted =>
    IF UnwrapBitLen % 8 # 0 \/ (UnwrapBitLen \div 8) + 2 > Len(UnwrapClear)
    THEN res.err.kind = "KeyBlockError" /\ res.key = <<>>
    ELSE /\ res.err = NoErr
         /\ res.key = [i \in 1..(UnwrapBitLen \div 8) |-> UnwrapClear[i + 2]] \o <<>>

C27_Witness ==
  /\ MacAccepted
  /\ header.VersionID = VerD
  /\ UnwrapBitLen = 240
  /\ Len(UnwrapClear) = 32
  /\ Len(res.key) = 30
  /\ res.err = NoErr

(***************************************************************************)
(* The work of a MAC comparison, counted in bytes examined.                *)
(***************************************************************************)
RECURSIVE FirstDiff(_, _, _)
\* the position of the first byte in which a and b differ, from position i on;
\* Len(a) when there is none
FirstDiff(a, b, i) ==
  IF i >= Len(a) THEN Len(a)
  ELSE IF a[i] # b[i] THEN i
  ELSE FirstDiff(a, b, i + 1)

\* bytes.Equal(a, b) on slices of one length: the library does not fix how
\* much of the slices it examines; it may stop at the first difference or
\* look at every byte
BytesEqualSteps(a, b) == {FirstDiff(a, b, 1), Len(a)}

\* compareMAC(a, b): a comparison that examines every byte
compareMACSteps(a, b) == {Len(a)}

UnwrapCompareSteps ==
  IF header.VersionID \in {VerB, VerD} THEN BytesEqualSteps(res.macCalc, res.macRecv)
  ELSE compareMACSteps(res.macCalc, res.macRecv)

\* C28: in the unwrap of every version the comparison of the recomputed MAC
\* with the received MAC does the same work wherever the first differing
\* byte is: it examines every byte of the MAC.
C28_ConstantTimeCompare ==
  (res.op = "Unwrap" /\ res.macChecked /\ Len(res.macRecv) = Len(res.macCalc)) =>
    UnwrapCompareSteps = {Len(res.macCalc)}

UnwrapMacMismatch == res.op = "Unwrap" /\ res.macChecked /\ res.macCalc # res.macRecv

\* the cipher returned an error, or what it returned is no usable clear key data
UnwrapDecryptFailure ==
  /\ res.op = "Unwrap"
  /\ res.err # NoErr
  /\ \/ res.err = PlainError("cipher failure")
     \/ res.decrypted /\ res.macChecked /\ res.macCalc = res.macRecv

\* C29: in every version Unwrap reports a MAC mismatch and a decryption
\* failure with one and the same error kind and message.
C29_SameFailureError ==
  (UnwrapMacMismatch \/ UnwrapDecryptFailure) =>
    res.err = KeyBlockError("Key block MAC doesn't match generated MAC.")

(***************************************************************************)
(* The Vault client.  vault is the key-value store of the Vault server: a  *)
(* mapping from paths to secrets, a secret a mapping from key names to     *)
(* values.  A path is the sequence of its segments, so "secret/data/app"   *)
(* is <<"secret", "data", "app">>.  The server serves the paths under its  *)
(* mount secret/data/ and answers a request with an error when it cannot   *)
(* be reached.                                                             *)
(***************************************************************************)
VaultError(m) == [kind |-> "VaultError", msg |-> m]

VaultErrorNoKeyPath == "Key path is not supported."
VaultErrorNoKeyName == "Key name is not supported."
VaultErrorNoKeyData == "Key data is not supported."
VaultErrorWriting == "Error writing to Vault with error: %v:"
VaultErrorReadResult == "Error reading from Vault or no data found:%v"
VaultErrorResultNotExist == "Key not found:%v"
VaultErrorUpdate == "Error updating Vault: %v"

Mount == <<"secret", "data">>
Mounted(path) == Len(path) > 2 /\ Take(path, 2) = Mount

\* client.Logical().Read(path): nil when nothing is stored at path
LogicalRead(store, path, down) ==
  IF down \/ ~Mounted(path) THEN [err |-> TRUE, nil |-> TRUE, data |-> << >>]
  ELSE IF path \notin DOMAIN store THEN [err |-> FALSE, nil |-> TRUE, data |-> << >>]
  ELSE [err |-> FALSE, nil |-> FALSE, data |-> store[path]]

\* client.Logical().Write(path, {"data": data}): the secret at path becomes data
LogicalWrite(store, path, data, down) ==
  IF down \/ ~Mounted(path) THEN [err |-> TRUE, store |-> store]
  ELSE [err |-> FALSE, store |-> (path :> data) @@ store]

WriteSecret(store, path, key, value, down) ==
  IF Len(path) = 0 THEN [err |-> VaultError(VaultErrorNoKeyPath), store |-> store]
  ELSE IF key = "" THEN [err |-> VaultError(VaultErrorNoKeyName), store |-> store]
  ELSE IF value = "" THEN [err |-> VaultError(VaultErrorNoKeyData), store |-> store]
  ELSE
    Bind(LogicalWrite(store, path, key :> value, down), LAMBDA w :
      IF w.err THEN [err |-> VaultError(VaultErrorWriting), store |-> w.store]
      ELSE [err |-> NoErr, store |-> w.store])

ReadSecret(store, path, key, down) ==
  IF Len(path) = 0 THEN [val |-> "", err |-> VaultError(VaultErrorNoKeyPath)]
  ELSE IF key = "" THEN [val |-> "", err |-> VaultError(VaultErrorNoKeyName)]
  ELSE
    Bind(LogicalRead(store, path, down), LAMBDA secret :
      IF secret.err \/ secret.nil THEN [val |-> "", err |-> VaultError(VaultErrorReadResult)]
      ELSE IF key \notin DOMAIN secret.data
      THEN [val |-> "", err |-> VaultError("key '%s' not found in data")]
      ELSE [val |-> secret.data[key], err |-> NoErr])

\* the secret without the key
WithoutKey(data, key) == [k \in (DOMAIN data) \ {key} |-> data[k]]

\* DeleteSecret reads the secret at path and writes the secret without the key
\* to "secret/data/" + path
DeleteSecret(store, path, key, downRead, downWrite) ==
  IF Len(path) = 0 THEN [err |-> VaultError(VaultErrorNoKeyPath), store |-> store]
  ELSE IF key = "" THEN [err |-> VaultError(VaultErrorNoKeyName), store |-> store]
  ELSE
    Bind(LogicalRead(store, path, downRead), LAMBDA secret :
      IF secret.err \/ secret.nil THEN [err |-> VaultError(VaultErrorReadResult), store |-> store]
      ELSE IF key \notin DOMAIN secret.data
      THEN [err |-> VaultError(VaultErrorResultNotExist), store |-> store]
      ELSE
        Bind(LogicalWrite(store, Mount \o path, WithoutKey(secret.data, key), downWrite), LAMBDA w :
          IF w.err THEN [err |-> VaultError(VaultErrorUpdate), store |-> w.store]
          ELSE [err |-> NoErr, store |-> w.store]))

AppPath == <<"secret", "data", "app">>
VaultPaths == {<<>>, <<"app">>, AppPath, Mount \o AppPath}
VaultKeys == {"", "k1", "k2"}
VaultValues == {"", "v1"}

\* what an operator stores with the Vault command line: a secret of two keys
OperatorSecret == ("k1" :> "v1") @@ ("k2" :> "v2")

OperatorPutAct ==
  /\ vault' = (AppPath :> OperatorSecret) @@ vault
  /\ res' = [op |-> "Put", err |-> NoErr]
  /\ UNCHANGED <<kbpk, header, blocks, text, wrapped, iter>>

\* v.WriteSecret(path, key, value)
WriteSecretCall ==
  /\ \E path \in VaultPaths, key \in VaultKeys, value \in VaultValues, down \in BOOLEAN :
       \E r \in {WriteSecret(vault, path, key, value, down)} :
         /\ vault' = r.store
         /\ res' = [op |-> "WriteSecret", err |-> r.err, path |-> path, key |-> key]
  /\ UNCHANGED <<kbpk, header, blocks, text, wrapped, iter>>

\* v.ReadSecret(path, key)
ReadSecretCall ==
  /\ \E path \in VaultPaths, key \in VaultKeys, down \in BOOLEAN :
       \E r \in {ReadSecret(vault, path, key, down)} :
         res' = [op |-> "ReadSecret", err |-> r.err, path |-> path, key |-> key, val |-> r.val]
  /\ UNCHANGED <<kbpk, header, blocks, text, wrapped, iter, vault>>

\* v.DeleteSecret(path, key)
DeleteSecretCall ==
  /\ \E path \in VaultPaths, key \in VaultKeys, downRead \in BOOLEAN, downWrite \in BOOLEAN :
       \E r \in {DeleteSecret(vault, path, key, downRead, downWrite)} :
         /\ vault' = r.store
         /\ res' = [op |-> "DeleteSecret", err |-> r.err, path |-> path, key |-> key,
                    before |-> vault]
  /\ UNCHANGED <<kbpk, header, blocks, text, wrapped, iter>>

NextVault ==
  \/ OperatorPutAct
  \/ WriteSecretCall
  \/ ReadSecretCall
  \/ DeleteSecretCall

SpecVault == InitBlocks /\ [][NextVault]_vars

\* C30: after a DeleteSecret(path, key) that returned no error, ReadSecret of
\* the same path and key reports that the key is not found, and ReadSecret of
\* every other key the secret at path held returns the value it had.
C30_DeleteThenRead ==
  (res.op = "DeleteSecret" /\ res.err = NoErr) =>
    /\ ReadSecret(vault, res.path, res.key, FALSE).err = VaultError("key '%s' not found in data")
    /\ \A k \in (DOMAIN res.before[res.path]) \ {res.key} :
         ReadSecret(vault, res.path, k, FALSE) = [val |-> res.before[res.path][k], err |-> NoErr]


====
